---- MODULE Spec2Model ----
(***************************************************************************)
(* DreamCraft photo editor: the App component's state (edit history,       *)
(* cursor, loading flag, error, composite working set, batch sources,      *)
(* pinned frame style, download selection), its event handlers, the        *)
(* asynchronous handlers' suspended continuations, and the gateway's       *)
(* response classification and data-URL codec.                             *)
(*                                                                         *)
(* Strings are sequences of one-character strings, so that split, trim,    *)
(* the MIME regular expression and atob are computed on characters.        *)
(* Messages shown to the user are sequences of text chunks.                *)
(* Indices are 0-based as in the source; At(s, i) reads s[i].              *)
(***************************************************************************)
EXTENDS Integers, Sequences, FiniteSets, TLC

(***************************************************************************)
(* Bounds of the model.                                                    *)
(***************************************************************************)
MaxHist == 3
MaxFiles == 3
MaxNow == 0
MaxHotspots == 1
MaxTasks == 2
MaxSelected == 1
MaxZip == 3
MaxZipLong == 11
MaxUrl == 4
MaxBytes == 3

(***************************************************************************)
(* Sequence and string helpers (JavaScript semantics).                     *)
(***************************************************************************)
At(s, i) == s[i + 1]

Slice(s, from, to) == SubSeq(s, from + 1, to)

Range(s) == {s[i] : i \in 1..Len(s)}

RemoveAt(s, i) == SubSeq(s, 1, i - 1) \o SubSeq(s, i + 1, Len(s))

Whitespace == {" ", "\t", "\n", "\r"}

RECURSIVE TrimStart(_)
TrimStart(s) ==
    IF s # <<>> /\ Head(s) \in Whitespace THEN TrimStart(Tail(s)) ELSE s

RECURSIVE TrimEnd(_)
TrimEnd(s) ==
    IF s # <<>> /\ s[Len(s)] \in Whitespace
    THEN TrimEnd(SubSeq(s, 1, Len(s) - 1))
    ELSE s

Trim(s) == TrimEnd(TrimStart(s))

\* String.prototype.split(sep) for a one-character separator
RECURSIVE SplitFrom(_, _, _)
SplitFrom(s, sep, cur) ==
    IF s = <<>> THEN <<cur>>
    ELSE IF Head(s) = sep THEN <<cur>> \o SplitFrom(Tail(s), sep, <<>>)
    ELSE SplitFrom(Tail(s), sep, Append(cur, Head(s)))

Split(s, sep) == SplitFrom(s, sep, <<>>)

\* positions (1-based) of character c in s
Positions(s, c) == {i \in 1..Len(s) : s[i] = c}

Min(S) == CHOOSE x \in S : \A y \in S : x <= y

NoMatch == [matched |-> FALSE, group |-> <<>>]

\* the characters '.' does not match
LineTerminators == {"\n", "\r"}

\* the first ';' after position i, or 0
NextSemicolon(s, i) ==
    IF \E j \in Positions(s, ";") : j > i
    THEN Min({j \in Positions(s, ";") : j > i}) ELSE 0

\* the leftmost ':' matches, whatever follows it
MimeMatchFirstColon(s) ==
    IF Positions(s, ":") = {} THEN NoMatch
    ELSE LET i == Min(Positions(s, ":"))
         IN [matched |-> TRUE,
             group |-> SubSeq(s, i + 1, IF NextSemicolon(s, i) = 0 THEN Len(s)
                                        ELSE NextSemicolon(s, i) - 1)]

\* arr[0].match(/:(.*?);/): the leftmost ':' with a ';' after it on the
\* same line, and the lazily shortest text up to that ';'
MimeMatch(s) ==
    LET colons == {i \in Positions(s, ":") :
                       /\ NextSemicolon(s, i) # 0
                       /\ \A k \in (i + 1)..(NextSemicolon(s, i) - 1) :
                              s[k] \notin LineTerminators}
    IN IF colons = {} THEN NoMatch
       ELSE LET i == Min(colons)
                j == Min({k \in Positions(s, ";") : k > i})
            IN [matched |-> TRUE, group |-> SubSeq(s, i + 1, j - 1)]

Digit(n) == At(<<"0", "1", "2", "3", "4", "5", "6", "7", "8", "9">>, n)

RECURSIVE NumToString(_)
NumToString(n) ==
    IF n < 10 THEN <<Digit(n)>> ELSE NumToString(n \div 10) \o <<Digit(n % 10)>>

(***************************************************************************)
(* atob: forgiving-base64 decode of the payload of a data URL.             *)
(***************************************************************************)
B64 ==
    << "A", "B", "C", "D", "E", "F", "G", "H", "I", "J", "K", "L", "M",
       "N", "O", "P", "Q", "R", "S", "T", "U", "V", "W", "X", "Y", "Z",
       "a", "b", "c", "d", "e", "f", "g", "h", "i", "j", "k", "l", "m",
       "n", "o", "p", "q", "r", "s", "t", "u", "v", "w", "x", "y", "z",
       "0", "1", "2", "3", "4", "5", "6", "7", "8", "9", "+", "/" >>

B64Index(c) == (CHOOSE i \in 1..Len(B64) : B64[i] = c) - 1

RECURSIVE B64Value(_)
B64Value(s) ==
    IF s = <<>> THEN 0
    ELSE B64Value(SubSeq(s, 1, Len(s) - 1)) * 64 + B64Index(s[Len(s)])

\* the bytes of one group of 2, 3 or 4 base64 characters
GroupBytes(g) ==
    LET v == B64Value(g)
    IN CASE Len(g) = 4 -> <<v \div 65536, (v \div 256) % 256, v % 256>>
         [] Len(g) = 3 -> <<v \div 1024, (v \div 4) % 256>>
         [] Len(g) = 2 -> <<v \div 16>>

RECURSIVE B64Groups(_)
B64Groups(s) ==
    IF s = <<>> THEN <<>>
    ELSE IF Len(s) <= 4 THEN GroupBytes(s)
    ELSE GroupBytes(SubSeq(s, 1, 4)) \o B64Groups(SubSeq(s, 5, Len(s)))

StripPadding(s) ==
    IF Len(s) % 4 = 0 /\ Len(s) > 0 /\ s[Len(s)] = "="
    THEN IF s[Len(s) - 1] = "="
         THEN SubSeq(s, 1, Len(s) - 2)
         ELSE SubSeq(s, 1, Len(s) - 1)
    ELSE s

NotWhitespace(c) == c \notin Whitespace

atob(data) ==
    LET s == StripPadding(SelectSeq(data, NotWhitespace))
    IN IF Len(s) % 4 = 1 \/ ~(Range(s) \subseteq Range(B64))
       THEN [ok |-> FALSE, bytes |-> <<>>]
       ELSE [ok |-> TRUE, bytes |-> B64Groups(s)]

(***************************************************************************)
(* Files, thrown errors and results.                                       *)
(***************************************************************************)
File(name, type, bytes) == [name |-> name, type |-> type, bytes |-> bytes]

NoFile == File(<<>>, <<>>, <<>>)

\* the outcome of a call that returns a string, or throws Error(message)
\* (isError), or rejects with a value that is no Error
Return(v) == [ok |-> TRUE, value |-> v, isError |-> FALSE, message |-> <<>>]

Throw(m) == [ok |-> FALSE, value |-> <<>>, isError |-> TRUE, message |-> m]

Reject == [ok |-> FALSE, value |-> <<>>, isError |-> FALSE, message |-> <<>>]

\* the outcome of a call that returns a File or throws Error(message)
ReturnFile(f) == [ok |-> TRUE, file |-> f, isError |-> FALSE, message |-> <<>>]

ThrowFile(m) == [ok |-> FALSE, file |-> NoFile, isError |-> TRUE, message |-> m]

dataURLtoFile(dataurl, filename) ==
    LET arr == Split(dataurl, ",")
    IN IF Len(arr) < 2 THEN ThrowFile(<<"Invalid data URL">>)
       ELSE LET mimeMatch == MimeMatch(At(arr, 0))
            IN IF ~mimeMatch.matched \/ mimeMatch.group = <<>>
               THEN ThrowFile(<<"Could not parse MIME type from data URL">>)
               ELSE LET bstr == atob(At(arr, 1))
                    IN IF ~bstr.ok
                       THEN ThrowFile(<<"InvalidCharacterError">>)
                       ELSE ReturnFile(File(filename, mimeMatch.group, bstr.bytes))

(***************************************************************************)
(* fileToPart: FileReader.readAsDataURL, then the same split and MIME      *)
(* parse as dataURLtoFile; the payload stays base64.                       *)
(***************************************************************************)
RECURSIVE B64Chars(_, _)
B64Chars(v, n) ==
    IF n = 0 THEN <<>>
    ELSE B64Chars(v \div 64, n - 1) \o <<At(B64, v % 64)>>

RECURSIVE btoa(_)
btoa(bytes) ==
    CASE Len(bytes) = 0 -> <<>>
      [] Len(bytes) = 1 -> B64Chars(bytes[1] * 16, 2) \o <<"=", "=">>
      [] Len(bytes) = 2 ->
            B64Chars((bytes[1] * 256 + bytes[2]) * 4, 3) \o <<"=">>
      [] OTHER ->
            B64Chars(bytes[1] * 65536 + bytes[2] * 256 + bytes[3], 4)
                \o btoa(SubSeq(bytes, 4, Len(bytes)))

DataPrefix == <<"d", "a", "t", "a", ":">>

Base64Marker == <<";", "b", "a", "s", "e", "6", "4", ",">>

OctetStream ==
    <<"a", "p", "p", "l", "i", "c", "a", "t", "i", "o", "n", "/",
      "o", "c", "t", "e", "t", "-", "s", "t", "r", "e", "a", "m">>

\* the media type the reader writes: the file's type; for a file without a
\* type, none or application/octet-stream, as the browser chooses
MediaTypes(file) ==
    IF file.type = <<>> THEN {<<>>, OctetStream} ELSE {file.type}

\* the results reader.readAsDataURL(file) can have
readAsDataURLs(file) ==
    {DataPrefix \o type \o Base64Marker \o btoa(file.bytes) :
         type \in MediaTypes(file)}

\* reader.result for a file that has a type
readAsDataURL(file) == DataPrefix \o file.type \o Base64Marker \o btoa(file.bytes)

NoPart == [mimeType |-> <<>>, data |-> <<>>]

\* fileToPart from the reader's result on
partOfDataUrl(dataUrl) ==
    LET arr == Split(dataUrl, ",")
    IN IF Len(arr) < 2
       THEN [ok |-> FALSE, isError |-> TRUE,
             message |-> <<"Invalid data URL">>, part |-> NoPart]
       ELSE LET mimeMatch == MimeMatch(At(arr, 0))
            IN IF ~mimeMatch.matched \/ mimeMatch.group = <<>>
               THEN [ok |-> FALSE, isError |-> TRUE,
                     message |-> <<"Could not parse MIME type from data URL">>,
                     part |-> NoPart]
               ELSE [ok |-> TRUE, isError |-> FALSE, message |-> <<>>,
                     part |-> [mimeType |-> mimeMatch.group,
                               data |-> At(arr, 1)]]

\* readOk: whether the FileReader fires onload (TRUE) or onerror (FALSE)
fileToPart(file, readOk) ==
    IF ~readOk THEN [ok |-> FALSE, isError |-> FALSE, message |-> <<>>, part |-> NoPart]
    ELSE partOfDataUrl(readAsDataURL(file))

(***************************************************************************)
(* The remote service's response and its classification.                   *)
(* An absent optional field is the empty string <<>> (falsy, like          *)
(* undefined).                                                             *)
(***************************************************************************)
TextPart(t) == [inlineData |-> FALSE, mimeType |-> <<>>, data |-> <<>>, text |-> t]

ImagePart(m, d) == [inlineData |-> TRUE, mimeType |-> m, data |-> d, text |-> <<>>]

Candidate(fr, parts) == [finishReason |-> fr, parts |-> parts]

Response(br, brm, cands, text) ==
    [blockReason |-> br, blockReasonMessage |-> brm,
     candidates |-> cands, text |-> text]

Truthy(s) == s # <<>>

\* response.candidates?.[0]?.content?.parts?.find(part => part.inlineData)
FirstImagePart(response) ==
    IF response.candidates = <<>> THEN TextPart(<<>>)
    ELSE LET parts == At(response.candidates, 0).parts
             found == {i \in 1..Len(parts) : parts[i].inlineData}
         IN IF found = {} THEN TextPart(<<>>) ELSE parts[Min(found)]

BlockedText == "Request was blocked. Reason: "

StoppedText == " stopped unexpectedly. Reason: "

NoImageText == "The AI model did not return an image for the "

RespondedText == "The model responded with text: \""

RephraseText ==
    "This can happen due to safety filters or if the request is too complex. Please try rephrasing your prompt to be more direct."

\* the three failures and the success of handleApiResponse
Blocked(response) ==
    Throw(<<BlockedText>> \o response.blockReason \o <<". ">>
              \o response.blockReasonMessage)

Stopped(finishReason, context) ==
    Throw(<<"Image generation for ">> \o context \o <<StoppedText>>
              \o finishReason
              \o <<". This often relates to safety settings.">>)

NoImage(response, context) ==
    LET textFeedback == Trim(response.text)
    IN Throw(<<NoImageText>> \o context \o <<". ">>
                 \o (IF Truthy(textFeedback)
                     THEN <<RespondedText>> \o textFeedback \o <<"\"">>
                     ELSE <<RephraseText>>))

ImageUrl(imagePart) ==
    Return(DataPrefix \o imagePart.mimeType \o Base64Marker \o imagePart.data)

FinishReason(response) ==
    IF response.candidates = <<>> THEN <<>>
    ELSE At(response.candidates, 0).finishReason

\* an image part is looked for before the block reason
handleApiResponseImageFirst(response, context) ==
    IF FirstImagePart(response).inlineData
    THEN ImageUrl(FirstImagePart(response))
    ELSE IF Truthy(response.blockReason) THEN Blocked(response)
    ELSE IF Truthy(FinishReason(response)) /\ FinishReason(response) # <<"STOP">>
    THEN Stopped(FinishReason(response), context)
    ELSE NoImage(response, context)

\* the finish reason is inspected before an image part is looked for
handleApiResponseFinishFirst(response, context) ==
    IF Truthy(response.blockReason) THEN Blocked(response)
    ELSE IF Truthy(FinishReason(response)) /\ FinishReason(response) # <<"STOP">>
    THEN Stopped(FinishReason(response), context)
    ELSE IF FirstImagePart(response).inlineData
    THEN ImageUrl(FirstImagePart(response))
    ELSE NoImage(response, context)

handleApiResponse(response, context) ==
    IF Truthy(response.blockReason) THEN Blocked(response)
    ELSE LET imagePartFromResponse == FirstImagePart(response)
         IN IF imagePartFromResponse.inlineData
            THEN ImageUrl(imagePartFromResponse)
            ELSE LET finishReason == FinishReason(response)
                 IN IF Truthy(finishReason) /\ finishReason # <<"STOP">>
                    THEN Stopped(finishReason, context)
                    ELSE NoImage(response, context)

(***************************************************************************)
(* Inputs: the files a user can pick, the texts typed into the fields,     *)
(* the replies of the remote service.                                      *)
(***************************************************************************)
Png == <<"i", "m", "a", "g", "e", "/", "p", "n", "g">>

DotPng == <<".", "p", "n", "g">>

Letters == <<"a", "b", "c", "d", "e", "f">>

\* the i-th file on the user's disk (1-based)
UserFile(i) == File(<<Letters[i]>>, Png, <<64 + i>>)

\* a file picker returns the first n files, in order
Selection(n) == [i \in 1..n |-> UserFile(i)]

Selections == {Selection(n) : n \in {0, 1, MaxFiles}}

StartFiles == {UserFile(1)}

PromptValues == {<<>>, <<"p">>}

SecondaryValues == {<<>>, <<"q">>}

StylePromptValues == {<<"S", "y", "n", "t", "h">>}

AdjustmentValues == {<<"B", "l", "u", "r">>}

FrameStyleValues == {<<>>, <<"g">>}

TopTextValues == {<<>>}

BottomTextValues == {<<>>}

Points == {[x |-> 1, y |-> 2]}

Tools ==
    {"composite", "retouch", "replace", "frame", "adjust", "creative",
     "crop", "batch"}

\* A run of the model follows a user who opens the tools of one toolbox.
Toolboxes ==
    {{"retouch", "crop", "replace"},
     {"retouch", "creative", "adjust"},
     {"retouch", "frame", "batch"},
     {"retouch", "composite"}}

\* replies of the remote service to a request whose first image part is part
ImageReply(part) ==
    Response(<<>>, <<>>,
             <<Candidate(<<"STOP">>, <<ImagePart(part.mimeType, part.data)>>)>>,
             <<>>)

NoMimeReply(part) ==
    Response(<<>>, <<>>,
             <<Candidate(<<"STOP">>, <<ImagePart(<<>>, part.data)>>)>>, <<>>)

BadDataReply ==
    Response(<<>>, <<>>, <<Candidate(<<"STOP">>, <<ImagePart(Png, <<"Q">>)>>)>>,
             <<>>)

BlockedReply == Response(<<"SAFETY">>, <<"no">>, <<>>, <<>>)

StoppedReply ==
    Response(<<>>, <<>>, <<Candidate(<<"MAX_TOKENS">>, <<>>)>>, <<>>)

TextReply ==
    Response(<<>>, <<>>, <<Candidate(<<"STOP">>, <<TextPart(<<"n", "o">>)>>)>>,
             <<"n", "o">>)

\* what the environment does with one gateway call: the file read fails, the
\* transport rejects, or the service answers
AllReplies ==
    {"image", "noMime", "badData", "blocked", "stopped", "text", "network",
     "readError"}

\* the replies the application's gateway calls get
Replies == {"image", "badData", "blocked", "readError"}

ReplyResponse(reply, part) ==
    CASE reply = "image" -> ImageReply(part)
      [] reply = "noMime" -> NoMimeReply(part)
      [] reply = "badData" -> BadDataReply
      [] reply = "blocked" -> BlockedReply
      [] reply = "stopped" -> StoppedReply
      [] OTHER -> TextReply

NetworkMessage == <<"Failed to fetch">>

\* one single-image gateway function (generateEditedImage, ...FilteredImage,
\* ...AdjustedImage, ...FramedImage): read the file, call, classify
generateImage(originalImage, context, reply) ==
    LET originalImagePart == fileToPart(originalImage, reply # "readError")
    IN IF ~originalImagePart.ok
       THEN IF originalImagePart.isError
            THEN Throw(originalImagePart.message) ELSE Reject
       ELSE IF reply = "network" THEN Throw(NetworkMessage)
       ELSE handleApiResponse(ReplyResponse(reply, originalImagePart.part),
                              context)

generateCompositedImage(files, reply) ==
    IF Len(files) < 2
    THEN Throw(<<"Compositing requires at least two images.">>)
    ELSE LET imageParts == [i \in 1..Len(files) |->
                                fileToPart(files[i], reply # "readError")]
             failed == {i \in 1..Len(files) : ~imageParts[i].ok}
         IN IF failed # {}
            THEN IF imageParts[Min(failed)].isError
                 THEN Throw(imageParts[Min(failed)].message) ELSE Reject
            ELSE IF reply = "network" THEN Throw(NetworkMessage)
            ELSE handleApiResponse(ReplyResponse(reply, imageParts[1].part),
                                   <<"composite">>)

(***************************************************************************)
(* The App component.                                                      *)
(***************************************************************************)
VARIABLES
    history,            \* File[]
    historyIndex,       \* -1 when there is no image
    prompt,
    secondaryPrompt,
    isLoading,
    error,              \* NoError or Err(message)
    editHotspots,
    activeTool,
    compositeFiles,
    styleSourceIndex,
    batchFiles,
    pinnedFrameStyle,   \* NoStyle or a style record
    selectedIndices,    \* a Set<number>, in insertion order
    style,              \* FramePanel's form fields
    topText,
    bottomText,
    tasks,              \* suspended asynchronous handlers
    now,                \* the last value Date.now() returned
    toolbox,            \* the tools the user opens in this run
    gateway             \* a function examined on its own: its arguments and outcome

appVars ==
    <<history, historyIndex, prompt, secondaryPrompt, isLoading, error,
      editHotspots, activeTool, compositeFiles,
      styleSourceIndex, batchFiles, pinnedFrameStyle, selectedIndices>>

frameVars == <<style, topText, bottomText>>

vars == <<appVars, frameVars, tasks, now, toolbox, gateway>>

NoError == [isNull |-> TRUE, message |-> <<>>]

Err(m) == [isNull |-> FALSE, message |-> m]

NoStyle == [isNull |-> TRUE, style |-> <<>>, topText |-> <<>>, bottomText |-> <<>>]

FrameStyle(s, t, b) ==
    [isNull |-> FALSE, style |-> s, topText |-> t, bottomText |-> b]

\* no response is being classified
NoCall == [pc |-> "idle"]

InitApp ==
    /\ history = <<>>
    /\ historyIndex = -1
    /\ prompt = <<>>
    /\ secondaryPrompt = <<>>
    /\ isLoading = FALSE
    /\ error = NoError
    /\ editHotspots = <<>>
    /\ activeTool = "retouch"
    /\ compositeFiles = <<>>
    /\ styleSourceIndex = 0
    /\ batchFiles = <<>>
    /\ pinnedFrameStyle = NoStyle
    /\ selectedIndices = <<>>
    /\ style = <<>>
    /\ topText = <<>>
    /\ bottomText = <<>>
    /\ tasks = <<>>
    /\ now = 0

Init ==
    /\ InitApp
    /\ toolbox \in Toolboxes
    /\ gateway = NoCall

\* history[historyIndex] ?? null
HasCurrentImage(h, i) == i >= 0 /\ i < Len(h)

currentImage == IF HasCurrentImage(history, historyIndex)
                THEN At(history, historyIndex) ELSE NoFile

\* history[0] ?? null
originalImage == IF Len(history) > 0 THEN history[1] ELSE NoFile

canUndo == historyIndex > 0

canRedo == historyIndex < Len(history) - 1

\* which of renderContent's branches is on screen
Screen(err, hist, idx, tool, cfiles, bfiles) ==
    IF ~err.isNull /\ err.message # <<>> THEN "error"
    ELSE IF ~HasCurrentImage(hist, idx) /\ tool \notin {"composite", "batch"}
    THEN "start"
    ELSE IF tool = "composite" /\ cfiles = <<>> THEN "compositeSelect"
    ELSE IF tool = "batch" /\ bfiles = <<>> THEN "batchSelect"
    ELSE "editor"

screen ==
    Screen(error, history, historyIndex, activeTool, compositeFiles, batchFiles)

\* the main image and the history strip are on screen
ImageShown ==
    /\ screen = "editor"
    /\ activeTool \notin {"composite", "batch"}

\* the lower part of the side panel (undo, redo, reset, upload, downloads)
SidePanelShown == screen = "editor" /\ HasCurrentImage(history, historyIndex)

\* FramePanel keeps its form fields while it is mounted and starts empty
FramePanelMounted(err, hist, idx, tool, cfiles, bfiles) ==
    Screen(err, hist, idx, tool, cfiles, bfiles) = "editor" /\ tool = "frame"

FramePanelKept ==
    /\ IF FramePanelMounted(error', history', historyIndex', activeTool',
                            compositeFiles', batchFiles')
       THEN UNCHANGED frameVars
       ELSE style' = <<>> /\ topText' = <<>> /\ bottomText' = <<>>
    /\ UNCHANGED <<toolbox, gateway>>

(***************************************************************************)
(* Synchronous handlers.                                                   *)
(***************************************************************************)
\* the cursor is set to the new length instead of the new last index
addImageToHistoryPastEnd(hist, idx, newImageFile) ==
    LET newHistory == Append(Slice(hist, 0, idx + 1), newImageFile)
    IN [history |-> newHistory, historyIndex |-> Len(newHistory)]

\* the new image is put in front of the kept entries
addImageToHistoryInFront(hist, idx, newImageFile) ==
    LET newHistory == <<newImageFile>> \o Slice(hist, 0, idx + 1)
    IN [history |-> newHistory, historyIndex |-> 0]

addImageToHistory(hist, idx, newImageFile) ==
    LET newHistory == Append(Slice(hist, 0, idx + 1), newImageFile)
    IN [history |-> newHistory, historyIndex |-> Len(newHistory) - 1]

handleStartEditing(file) ==
    /\ screen = "start"
    /\ error' = NoError
    /\ history' = <<file>>
    /\ historyIndex' = 0
    /\ compositeFiles' = <<>>
    /\ styleSourceIndex' = 0
    /\ batchFiles' = <<>>
    /\ editHotspots' = <<>>
    /\ activeTool' = "retouch"
    /\ selectedIndices' = <<>>
    /\ UNCHANGED <<prompt, secondaryPrompt, isLoading, pinnedFrameStyle,
                   tasks, now>>
    /\ FramePanelKept

TryAgain ==
    /\ screen = "error"
    /\ error' = NoError
    /\ UNCHANGED <<history, historyIndex, prompt, secondaryPrompt, isLoading,
                   editHotspots, activeTool, compositeFiles,
                   styleSourceIndex, batchFiles, pinnedFrameStyle,
                   selectedIndices, tasks, now>>
    /\ FramePanelKept

setActiveTool(tool) ==
    /\ screen = "editor"
    /\ ~isLoading
    /\ tool \in toolbox
    /\ activeTool' = tool
    /\ UNCHANGED <<history, historyIndex, prompt, secondaryPrompt, isLoading,
                   error, editHotspots, compositeFiles,
                   styleSourceIndex, batchFiles, pinnedFrameStyle,
                   selectedIndices, tasks, now>>
    /\ FramePanelKept

\* the style-source index is left where it was
handleCompositeFilesSelectKeepsIndex(files) ==
    /\ IF Len(files) > 1
       THEN /\ error' = NoError
            /\ compositeFiles' = files
            /\ UNCHANGED styleSourceIndex
       ELSE /\ error' = Err(<<"Please select at least two images for compositing.">>)
            /\ UNCHANGED <<compositeFiles, styleSourceIndex>>
    /\ UNCHANGED <<history, historyIndex, prompt, secondaryPrompt, isLoading,
                   editHotspots, activeTool, batchFiles,
                   pinnedFrameStyle, selectedIndices, tasks, now>>
    /\ FramePanelKept

handleCompositeFilesSelect(files) ==
    /\ IF Len(files) > 1
       THEN /\ error' = NoError
            /\ compositeFiles' = files
            /\ styleSourceIndex' = 0
       ELSE /\ error' = Err(<<"Please select at least two images for compositing.">>)
            /\ UNCHANGED <<compositeFiles, styleSourceIndex>>
    /\ UNCHANGED <<history, historyIndex, prompt, secondaryPrompt, isLoading,
                   editHotspots, activeTool, batchFiles,
                   pinnedFrameStyle, selectedIndices, tasks, now>>
    /\ FramePanelKept

\* the composite screen's file input changes
SelectCompositeFiles(files) ==
    screen = "compositeSelect" /\ handleCompositeFilesSelect(files)

\* the history is kept until a batch run replaces it
handleBatchFilesSelectKeepsHistory(files) ==
    /\ IF Len(files) > 0
       THEN /\ error' = NoError
            /\ batchFiles' = files
            /\ UNCHANGED <<history, historyIndex>>
       ELSE /\ error' = Err(<<"Please select one or more images for batch processing.">>)
            /\ UNCHANGED <<batchFiles, history, historyIndex>>
    /\ UNCHANGED <<prompt, secondaryPrompt, isLoading, editHotspots,
                   activeTool, compositeFiles,
                   styleSourceIndex, pinnedFrameStyle, selectedIndices, tasks,
                   now>>
    /\ FramePanelKept

handleBatchFilesSelect(files) ==
    /\ IF Len(files) > 0
       THEN /\ error' = NoError
            /\ batchFiles' = files
            /\ history' = <<>>
            /\ historyIndex' = -1
       ELSE /\ error' = Err(<<"Please select one or more images for batch processing.">>)
            /\ UNCHANGED <<batchFiles, history, historyIndex>>
    /\ UNCHANGED <<prompt, secondaryPrompt, isLoading, editHotspots,
                   activeTool, compositeFiles,
                   styleSourceIndex, pinnedFrameStyle, selectedIndices, tasks,
                   now>>
    /\ FramePanelKept

\* the batch screen's file input changes
SelectBatchFiles(files) ==
    screen = "batchSelect" /\ handleBatchFilesSelect(files)

\* the cursor is moved back without looking at canUndo
handleUndoUnguarded ==
    /\ historyIndex' = historyIndex - 1 /\ editHotspots' = <<>>
    /\ UNCHANGED <<history, prompt, secondaryPrompt, isLoading, error,
                   activeTool, compositeFiles,
                   styleSourceIndex, batchFiles, pinnedFrameStyle,
                   selectedIndices, tasks, now>>
    /\ FramePanelKept

handleUndo ==
    /\ IF canUndo
       THEN historyIndex' = historyIndex - 1 /\ editHotspots' = <<>>
       ELSE UNCHANGED <<historyIndex, editHotspots>>
    /\ UNCHANGED <<history, prompt, secondaryPrompt, isLoading, error,
                   activeTool, compositeFiles,
                   styleSourceIndex, batchFiles, pinnedFrameStyle,
                   selectedIndices, tasks, now>>
    /\ FramePanelKept

\* the header's Undo button: disabled={!canUndo || isLoading}
PressUndo ==
    SidePanelShown /\ ~(~canUndo \/ isLoading) /\ handleUndo

handleRedo ==
    /\ IF canRedo
       THEN historyIndex' = historyIndex + 1 /\ editHotspots' = <<>>
       ELSE UNCHANGED <<historyIndex, editHotspots>>
    /\ UNCHANGED <<history, prompt, secondaryPrompt, isLoading, error,
                   activeTool, compositeFiles,
                   styleSourceIndex, batchFiles, pinnedFrameStyle,
                   selectedIndices, tasks, now>>
    /\ FramePanelKept

\* the header's Redo button: disabled={!canRedo || isLoading}
PressRedo ==
    SidePanelShown /\ ~(~canRedo \/ isLoading) /\ handleRedo

handleReset ==
    /\ SidePanelShown
    /\ ~(~canUndo \/ isLoading)
    /\ IF Len(history) > 0
       THEN /\ historyIndex' = 0
            /\ error' = NoError
            /\ editHotspots' = <<>>
            /\ selectedIndices' = <<>>
       ELSE UNCHANGED <<historyIndex, error, editHotspots, selectedIndices>>
    /\ UNCHANGED <<history, prompt, secondaryPrompt, isLoading, activeTool,
                   compositeFiles, styleSourceIndex,
                   batchFiles, pinnedFrameStyle, tasks, now>>
    /\ FramePanelKept

\* upload-new also forgets the pinned style
handleUploadNewUnpins ==
    /\ SidePanelShown
    /\ ~isLoading
    /\ history' = <<>>
    /\ historyIndex' = -1
    /\ error' = NoError
    /\ prompt' = <<>>
    /\ editHotspots' = <<>>
    /\ compositeFiles' = <<>>
    /\ styleSourceIndex' = 0
    /\ batchFiles' = <<>>
    /\ activeTool' = "retouch"
    /\ selectedIndices' = <<>>
    /\ pinnedFrameStyle' = NoStyle
    /\ UNCHANGED <<secondaryPrompt, isLoading, tasks, now>>
    /\ FramePanelKept

handleUploadNew ==
    /\ SidePanelShown
    /\ ~isLoading
    /\ history' = <<>>
    /\ historyIndex' = -1
    /\ error' = NoError
    /\ prompt' = <<>>
    /\ editHotspots' = <<>>
    /\ compositeFiles' = <<>>
    /\ styleSourceIndex' = 0
    /\ batchFiles' = <<>>
    /\ activeTool' = "retouch"
    /\ selectedIndices' = <<>>
    /\ UNCHANGED <<secondaryPrompt, isLoading, pinnedFrameStyle, tasks, now>>
    /\ FramePanelKept

\* every thumbnail moves the cursor to the newest entry
jumpToLast(index) ==
    /\ ImageShown
    /\ Len(history) > 1
    /\ index \in 0..(Len(history) - 1)
    /\ historyIndex' = Len(history) - 1
    /\ editHotspots' = <<>>
    /\ UNCHANGED <<history, prompt, secondaryPrompt, isLoading, error,
                   activeTool, compositeFiles,
                   styleSourceIndex, batchFiles, pinnedFrameStyle,
                   selectedIndices, tasks, now>>
    /\ FramePanelKept

\* a click on a history thumbnail
jumpTo(index) ==
    /\ ImageShown
    /\ Len(history) > 1
    /\ index \in 0..(Len(history) - 1)
    /\ historyIndex' = index
    /\ editHotspots' = <<>>
    /\ UNCHANGED <<history, prompt, secondaryPrompt, isLoading, error,
                   activeTool, compositeFiles,
                   styleSourceIndex, batchFiles, pinnedFrameStyle,
                   selectedIndices, tasks, now>>
    /\ FramePanelKept

\* how many thumbnails are selected at most: any number when the user
\* opens no tool, MaxSelected otherwise
SelectionCap == IF toolbox = {} THEN MaxHist ELSE MaxSelected

\* selecting a thumbnail deselects the others
ToggledAlone(selected, index) ==
    IF index \in Range(selected)
    THEN SelectSeq(selected, LAMBDA j : j # index)
    ELSE <<index>>

\* newSet.has(index) ? newSet.delete(index) : newSet.add(index)
Toggled(selected, index) ==
    IF index \in Range(selected)
    THEN SelectSeq(selected, LAMBDA j : j # index)
    ELSE Append(selected, index)

handleToggleSelection(index) ==
    /\ ImageShown
    /\ Len(history) > 1
    /\ index \in 0..(Len(history) - 1)
    /\ index \in Range(selectedIndices) \/ Len(selectedIndices) < SelectionCap
    /\ selectedIndices' = Toggled(selectedIndices, index)
    /\ UNCHANGED <<history, historyIndex, prompt, secondaryPrompt, isLoading,
                   error, editHotspots, activeTool, compositeFiles, styleSourceIndex, batchFiles,
                   pinnedFrameStyle, tasks, now>>
    /\ FramePanelKept

(***************************************************************************)
(* Asynchronous handlers.  A handler runs up to its first await in one     *)
(* step and leaves a task: the values its closure captured and how far it  *)
(* got.  The task resumes when the awaited gateway call settles.           *)
(***************************************************************************)
Request(fn, files, texts) == [fn |-> fn, files |-> files, texts |-> texts]

\* hist and idx are the history and cursor of the render the handler was
\* created in, for the handlers that read them or are compared with them
Task(op, image, hist, idx, files, pinned, results, sent) ==
    [op |-> op, image |-> image, history |-> hist, historyIndex |-> idx,
     files |-> files, pinned |-> pinned, results |-> results, sent |-> sent]

\* a handler that edits currentImage and appends the result
EditTask(op, fn, texts) ==
    Task(op, currentImage, history, historyIndex, <<>>, NoStyle, <<>>,
         <<Request(fn, <<currentImage>>, texts)>>)

UnknownErrorText == "An unknown error occurred."

\* the catch block swallows the error
CaughtSilently(outcome, fallback) == NoError

\* catch (err): err instanceof Error ? err.message : fallback
Caught(outcome, fallback) ==
    Err(IF outcome.isError THEN outcome.message ELSE <<fallback>>)

EditedName(prefix, t) == prefix \o NumToString(t) \o DotPng

\* start of handleGenerate, handleApplyCreativeStyle, handleApplyAdjustment,
\* handleReplaceObject and handleApplyFrame, after their own checks
BeginEdit(task) ==
    /\ Len(tasks) < MaxTasks
    /\ historyIndex + 2 <= MaxHist
    /\ isLoading' = TRUE
    /\ error' = NoError
    /\ tasks' = Append(tasks, task)
    /\ UNCHANGED <<history, historyIndex, prompt, secondaryPrompt,
                   editHotspots, activeTool, compositeFiles,
                   styleSourceIndex, batchFiles, pinnedFrameStyle,
                   selectedIndices, now>>
    /\ FramePanelKept

\* a handler's guard clause: return
Returns == UNCHANGED vars

\* the message is set after the loading flag was raised
RefuseEditLate(message) ==
    /\ error' = Err(<<message>>)
    /\ isLoading' = TRUE
    /\ UNCHANGED <<history, historyIndex, prompt, secondaryPrompt,
                   editHotspots, activeTool, compositeFiles,
                   styleSourceIndex, batchFiles, pinnedFrameStyle,
                   selectedIndices, tasks, now>>
    /\ FramePanelKept

\* a handler's own check failed: setError(message); return
RefuseEdit(message) ==
    /\ error' = Err(<<message>>)
    /\ UNCHANGED <<history, historyIndex, prompt, secondaryPrompt, isLoading,
                   editHotspots, activeTool, compositeFiles,
                   styleSourceIndex, batchFiles, pinnedFrameStyle,
                   selectedIndices, tasks, now>>
    /\ FramePanelKept

\* the try/catch/finally of the five single-image handlers, from the await on
\* the result is appended after the entry under the cursor of the moment
ResumeEditAtCursor(i, outcome, prefix, t, fallback, clearsHotspots, clearsPrompt, clearsSecondary) ==
    LET task == tasks[i]
        decoded == IF outcome.ok
                   THEN dataURLtoFile(outcome.value, EditedName(prefix, t))
                   ELSE ThrowFile(<<>>)
        added == addImageToHistory(history, historyIndex,
                                   decoded.file)
    IN /\ tasks' = RemoveAt(tasks, i)
       /\ isLoading' = FALSE
       /\ now' = IF outcome.ok THEN t ELSE now
       /\ IF outcome.ok /\ decoded.ok
          THEN /\ history' = added.history
               /\ historyIndex' = added.historyIndex
                          /\ editHotspots' = IF clearsHotspots THEN <<>> ELSE editHotspots
               /\ prompt' = IF clearsPrompt THEN <<>> ELSE prompt
               /\ secondaryPrompt' =
                      IF clearsSecondary THEN <<>> ELSE secondaryPrompt
               /\ UNCHANGED error
          ELSE /\ error' = IF outcome.ok THEN Caught(decoded, fallback)
                           ELSE Caught(outcome, fallback)
               /\ UNCHANGED <<history, historyIndex, editHotspots, prompt, secondaryPrompt>>
       /\ UNCHANGED <<activeTool, compositeFiles, styleSourceIndex,
                      batchFiles, pinnedFrameStyle, selectedIndices>>
       /\ FramePanelKept

ResumeEdit(i, outcome, prefix, t, fallback, clearsHotspots, clearsPrompt, clearsSecondary) ==
    LET task == tasks[i]
        decoded == IF outcome.ok
                   THEN dataURLtoFile(outcome.value, EditedName(prefix, t))
                   ELSE ThrowFile(<<>>)
        added == addImageToHistory(task.history, task.historyIndex,
                                   decoded.file)
    IN /\ tasks' = RemoveAt(tasks, i)
       /\ isLoading' = FALSE
       /\ now' = IF outcome.ok THEN t ELSE now
       /\ IF outcome.ok /\ decoded.ok
          THEN /\ history' = added.history
               /\ historyIndex' = added.historyIndex
                          /\ editHotspots' = IF clearsHotspots THEN <<>> ELSE editHotspots
               /\ prompt' = IF clearsPrompt THEN <<>> ELSE prompt
               /\ secondaryPrompt' =
                      IF clearsSecondary THEN <<>> ELSE secondaryPrompt
               /\ UNCHANGED error
          ELSE /\ error' = IF outcome.ok THEN Caught(decoded, fallback)
                           ELSE Caught(outcome, fallback)
               /\ UNCHANGED <<history, historyIndex, editHotspots, prompt, secondaryPrompt>>
       /\ UNCHANGED <<activeTool, compositeFiles, styleSourceIndex,
                      batchFiles, pinnedFrameStyle, selectedIndices>>
       /\ FramePanelKept

GenerateEnabled ==
    /\ screen = "editor"
    /\ activeTool = "retouch"
    /\ ~(isLoading \/ Trim(prompt) = <<>> \/ Len(editHotspots) = 0)

handleGenerate ==
    IF ~HasCurrentImage(history, historyIndex) THEN Returns
    ELSE IF Trim(prompt) = <<>>
    THEN RefuseEdit("Please enter a description for your edit.")
    ELSE IF Len(editHotspots) = 0
    THEN RefuseEdit("Please click on the image to select an area to edit.")
    ELSE BeginEdit(EditTask("edit", "generateEditedImage", <<prompt>>))

\* the retouch form is submitted
SubmitGenerate == GenerateEnabled /\ handleGenerate

handleGenerateResume(i, reply, t) ==
    /\ tasks[i].op = "edit"
    /\ ResumeEdit(i, generateImage(tasks[i].image, <<"edit">>, reply),
                  <<"e", "d", "i", "t", "e", "d", "-">>, t,
                  UnknownErrorText, TRUE, TRUE, FALSE)

\* the button is not disabled while loading
ApplyStyleEnabledWhileLoading ==
    /\ screen = "editor"
    /\ activeTool = "creative"

\* CreativePanel: the Apply Style button
ApplyStyleEnabled ==
    /\ screen = "editor"
    /\ activeTool = "creative"
    /\ ~isLoading

handleApplyCreativeStyle(stylePrompt) ==
    /\ ApplyStyleEnabled
    /\ Trim(stylePrompt) # <<>>
    /\ HasCurrentImage(history, historyIndex)
    /\ BeginEdit(EditTask("filter", "generateFilteredImage", <<stylePrompt>>))

handleApplyCreativeStyleResume(i, reply, t) ==
    /\ tasks[i].op = "filter"
    /\ ResumeEdit(i, generateImage(tasks[i].image, <<"filter">>, reply),
                  <<"s", "t", "y", "l", "e", "d", "-">>, t,
                  UnknownErrorText, FALSE, FALSE, FALSE)

\* AdjustmentPanel: the Apply button
ApplyAdjustmentEnabled ==
    /\ screen = "editor"
    /\ activeTool = "adjust"
    /\ ~isLoading

handleApplyAdjustment(adjustmentPrompt) ==
    /\ ApplyAdjustmentEnabled
    /\ HasCurrentImage(history, historyIndex)
    /\ BeginEdit(EditTask("adjust", "generateAdjustedImage",
                          <<adjustmentPrompt>>))

handleApplyAdjustmentResume(i, reply, t) ==
    /\ tasks[i].op = "adjust"
    /\ ResumeEdit(i, generateImage(tasks[i].image, <<"adjustment">>, reply),
                  <<"a", "d", "j", "u", "s", "t", "e", "d", "-">>, t,
                  UnknownErrorText, FALSE, FALSE, FALSE)

ReplaceEnabled ==
    /\ screen = "editor"
    /\ activeTool = "replace"
    /\ ~(isLoading \/ Trim(prompt) = <<>> \/ Trim(secondaryPrompt) = <<>>)

handleReplaceObject ==
    IF ~HasCurrentImage(history, historyIndex) THEN Returns
    ELSE IF Trim(prompt) = <<>> \/ Trim(secondaryPrompt) = <<>>
    THEN RefuseEdit("Please fill out both fields.")
    ELSE BeginEdit(EditTask("replace", "generateAdjustedImage",
                            << <<"Replace the ">> \o prompt
                                   \o <<" with a ">> \o secondaryPrompt
                                   \o <<".">> >>))

\* the replace form is submitted
SubmitReplace == ReplaceEnabled /\ handleReplaceObject

handleReplaceObjectResume(i, reply, t) ==
    /\ tasks[i].op = "replace"
    /\ ResumeEdit(i, generateImage(tasks[i].image, <<"adjustment">>, reply),
                  <<"r", "e", "p", "l", "a", "c", "e", "d", "-">>, t,
                  UnknownErrorText, FALSE, TRUE, TRUE)

\* FramePanel: the Generate Frame and Pin buttons
FrameButtonsEnabled ==
    /\ screen = "editor"
    /\ activeTool = "frame"
    /\ ~(isLoading \/ Trim(style) = <<>>)

handleApplyFrame ==
    IF ~HasCurrentImage(history, historyIndex) THEN Returns
    ELSE IF Trim(style) = <<>>
    THEN RefuseEdit("Please describe the frame style.")
    ELSE BeginEdit(EditTask("frame", "generateFramedImage",
                            <<style, topText, bottomText>>))

\* FramePanel: the Generate Frame button is pressed
handleApply == FrameButtonsEnabled /\ handleApplyFrame

handleApplyFrameResume(i, reply, t) ==
    /\ tasks[i].op = "frame"
    /\ ResumeEdit(i, generateImage(tasks[i].image, <<"frame">>, reply),
                  <<"f", "r", "a", "m", "e", "d", "-">>, t,
                  "An unknown error occurred while adding the frame.",
                  FALSE, FALSE, FALSE)

(***************************************************************************)
(* Composite.                                                              *)
(***************************************************************************)
\* the style source changes places with the first file
OrderedFilesSwapped(files, index) ==
    [k \in 1..Len(files) |->
        IF k = 1 THEN At(files, index)
        ELSE IF k = index + 1 THEN files[1] ELSE files[k]]

\* const orderedFiles = [...compositeFiles];
\* const styleSourceFile = orderedFiles.splice(styleSourceIndex, 1)[0];
\* orderedFiles.unshift(styleSourceFile);
OrderedFiles(files, index) ==
    IF index < Len(files)
    THEN <<At(files, index)>> \o RemoveAt(files, index + 1)
    ELSE <<NoFile>> \o files

GenerateCompositeEnabled ==
    /\ screen = "editor"
    /\ activeTool = "composite"
    /\ ~(isLoading \/ Len(compositeFiles) < 2)

handleGenerateComposite ==
    IF Len(compositeFiles) < 2 THEN Returns
    ELSE
    /\ Len(tasks) < MaxTasks
    /\ isLoading' = TRUE
    /\ error' = NoError
    /\ LET orderedFiles == OrderedFiles(compositeFiles, styleSourceIndex)
       IN tasks' = Append(tasks,
              Task("composite", NoFile, history, historyIndex, orderedFiles,
                   NoStyle, <<>>,
                   <<Request("generateCompositedImage", orderedFiles, <<>>)>>))
    /\ UNCHANGED <<history, historyIndex, prompt, secondaryPrompt,
                   editHotspots, activeTool, compositeFiles,
                   styleSourceIndex, batchFiles, pinnedFrameStyle,
                   selectedIndices, now>>
    /\ FramePanelKept

\* the composite panel's Generate button is pressed
PressGenerateComposite == GenerateCompositeEnabled /\ handleGenerateComposite

\* the result is appended to the history that was there
handleGenerateCompositeResumeAppends(i, reply, t) ==
    LET task == tasks[i]
        outcome == generateCompositedImage(task.files, reply)
        decoded ==
            IF outcome.ok
            THEN dataURLtoFile(outcome.value,
                     EditedName(<<"c", "o", "m", "p", "o", "s", "i", "t", "e",
                                  "d", "-">>, t))
            ELSE ThrowFile(<<>>)
    IN /\ task.op = "composite"
       /\ tasks' = RemoveAt(tasks, i)
       /\ isLoading' = FALSE
       /\ now' = IF outcome.ok THEN t ELSE now
       /\ IF outcome.ok /\ decoded.ok
          THEN /\ history' = Append(history, decoded.file)
               /\ historyIndex' = Len(history)
               /\ compositeFiles' = <<>>
               /\ styleSourceIndex' = 0
               /\ activeTool' = "retouch"
               /\ UNCHANGED error
          ELSE /\ error' =
                      Caught(IF outcome.ok THEN decoded ELSE outcome,
                             "An unknown error occurred during compositing.")
               /\ UNCHANGED <<history, historyIndex, compositeFiles,
                              styleSourceIndex, activeTool>>
       /\ UNCHANGED <<prompt, secondaryPrompt, editHotspots, batchFiles, pinnedFrameStyle, selectedIndices>>
       /\ FramePanelKept

handleGenerateCompositeResume(i, reply, t) ==
    LET task == tasks[i]
        outcome == generateCompositedImage(task.files, reply)
        decoded ==
            IF outcome.ok
            THEN dataURLtoFile(outcome.value,
                     EditedName(<<"c", "o", "m", "p", "o", "s", "i", "t", "e",
                                  "d", "-">>, t))
            ELSE ThrowFile(<<>>)
    IN /\ task.op = "composite"
       /\ tasks' = RemoveAt(tasks, i)
       /\ isLoading' = FALSE
       /\ now' = IF outcome.ok THEN t ELSE now
       /\ IF outcome.ok /\ decoded.ok
          THEN /\ history' = <<decoded.file>>
               /\ historyIndex' = 0
               /\ compositeFiles' = <<>>
               /\ styleSourceIndex' = 0
               /\ activeTool' = "retouch"
               /\ UNCHANGED error
          ELSE /\ error' =
                      Caught(IF outcome.ok THEN decoded ELSE outcome,
                             "An unknown error occurred during compositing.")
               /\ UNCHANGED <<history, historyIndex, compositeFiles,
                              styleSourceIndex, activeTool>>
       /\ UNCHANGED <<prompt, secondaryPrompt, editHotspots, batchFiles, pinnedFrameStyle, selectedIndices>>
       /\ FramePanelKept

\* a click lands on a position whether or not a thumbnail is there
setStyleSourceIndexAnywhere(index) ==
    /\ screen = "editor"
    /\ activeTool = "composite"
    /\ styleSourceIndex' = index
    /\ UNCHANGED <<history, historyIndex, prompt, secondaryPrompt, isLoading,
                   error, editHotspots, activeTool, compositeFiles, batchFiles, pinnedFrameStyle,
                   selectedIndices, tasks, now>>
    /\ FramePanelKept

\* a click on a composite thumbnail
setStyleSourceIndex(index) ==
    /\ screen = "editor"
    /\ activeTool = "composite"
    /\ index \in 0..(Len(compositeFiles) - 1)
    /\ styleSourceIndex' = index
    /\ UNCHANGED <<history, historyIndex, prompt, secondaryPrompt, isLoading,
                   error, editHotspots, activeTool, compositeFiles, batchFiles, pinnedFrameStyle,
                   selectedIndices, tasks, now>>
    /\ FramePanelKept

\* the composite panel's Start Over button
StartOver ==
    /\ screen = "editor"
    /\ activeTool = "composite"
    /\ compositeFiles' = <<>>
    /\ styleSourceIndex' = 0
    /\ UNCHANGED <<history, historyIndex, prompt, secondaryPrompt, isLoading,
                   error, editHotspots, activeTool, batchFiles,
                   pinnedFrameStyle, selectedIndices, tasks, now>>
    /\ FramePanelKept

(***************************************************************************)
(* Batch.                                                                  *)
(***************************************************************************)
BatchName(file) ==
    <<"f", "r", "a", "m", "e", "d", "-", "b", "a", "t", "c", "h", "-">>
        \o file.name \o DotPng

FrameRequest(file, pinned) ==
    Request("generateFramedImage", <<file>>,
            <<pinned.style, pinned.topText, pinned.bottomText>>)

\* the cursor is put on the first result
batchInstallFirst(results) == [history |-> results, historyIndex |-> 0]

\* setHistory(results); setHistoryIndex(results.length - 1)
batchInstall(results) ==
    [history |-> results, historyIndex |-> Len(results) - 1]

\* the catch block drops the partial results
batchCatchDiscard(results, hist, idx) ==
    [history |-> hist, historyIndex |-> idx]

\* the catch block: still show partial results if any
batchCatch(results, hist, idx) ==
    IF Len(results) > 0 THEN batchInstall(results)
    ELSE [history |-> hist, historyIndex |-> idx]

\* BatchPanel: the Apply button is rendered when a style is pinned
ApplyToBatchEnabled ==
    /\ screen = "editor"
    /\ activeTool = "batch"
    /\ ~pinnedFrameStyle.isNull
    /\ ~(isLoading \/ ~(Len(batchFiles) > 0))

\* the guard clause looks at the source list only
handleApplyFrameToBatchUnpinned ==
    IF Len(batchFiles) = 0
    THEN Returns
    ELSE /\ Len(tasks) < MaxTasks
         /\ isLoading' = TRUE
         /\ error' = NoError
         /\ tasks' = Append(tasks,
                Task("batch", NoFile, history, historyIndex, batchFiles,
                     pinnedFrameStyle, <<>>,
                     <<FrameRequest(At(batchFiles, 0), pinnedFrameStyle)>>))
         /\ UNCHANGED <<history, historyIndex, prompt, secondaryPrompt,
                        editHotspots, activeTool, compositeFiles,
                        styleSourceIndex, batchFiles, pinnedFrameStyle,
                        selectedIndices, now>>
         /\ FramePanelKept

handleApplyFrameToBatch ==
    IF pinnedFrameStyle.isNull \/ Len(batchFiles) = 0
    THEN Returns
    ELSE /\ Len(tasks) < MaxTasks
         /\ isLoading' = TRUE
         /\ error' = NoError
         /\ tasks' = Append(tasks,
                Task("batch", NoFile, history, historyIndex, batchFiles,
                     pinnedFrameStyle, <<>>,
                     <<FrameRequest(At(batchFiles, 0), pinnedFrameStyle)>>))
         /\ UNCHANGED <<history, historyIndex, prompt, secondaryPrompt,
                        editHotspots, activeTool, compositeFiles,
                        styleSourceIndex, batchFiles, pinnedFrameStyle,
                        selectedIndices, now>>
         /\ FramePanelKept

\* BatchPanel's Apply button
PressApplyToBatch == ApplyToBatchEnabled /\ handleApplyFrameToBatch

\* one turn of the for loop, from the await on: the call for the file at
\* position Len(results) has settled
handleApplyFrameToBatchResume(i, reply) ==
    LET task == tasks[i]
        file == At(task.files, Len(task.results))
        outcome == generateImage(file, <<"frame">>, reply)
        decoded == IF outcome.ok
                   THEN dataURLtoFile(outcome.value, BatchName(file))
                   ELSE ThrowFile(<<>>)
        results == Append(task.results, decoded.file)
    IN /\ task.op = "batch"
       /\ IF outcome.ok /\ decoded.ok
          THEN IF Len(results) < Len(task.files)
               THEN \* next turn: the next call is issued
                    /\ tasks' = [tasks EXCEPT ![i] =
                           [task EXCEPT
                               !.results = results,
                               !.sent = Append(task.sent,
                                   FrameRequest(At(task.files, Len(results)),
                                                task.pinned))]]
                    /\ UNCHANGED <<history, historyIndex, batchFiles,
                                   activeTool, error, isLoading>>
               ELSE /\ tasks' = RemoveAt(tasks, i)
                    /\ history' = batchInstall(results).history
                    /\ historyIndex' = batchInstall(results).historyIndex
                    /\ batchFiles' = <<>>
                    /\ activeTool' = "retouch"
                    /\ isLoading' = FALSE
                    /\ UNCHANGED error
          ELSE /\ tasks' = RemoveAt(tasks, i)
               /\ error' =
                      Caught(IF outcome.ok THEN decoded ELSE outcome,
                             "An error occurred during batch processing. Some images may not have been processed.")
               /\ history' =
                      batchCatch(task.results, history, historyIndex).history
               /\ historyIndex' =
                      batchCatch(task.results, history, historyIndex).historyIndex
               /\ isLoading' = FALSE
               /\ UNCHANGED <<batchFiles, activeTool>>
       /\ UNCHANGED <<prompt, secondaryPrompt, editHotspots, compositeFiles, styleSourceIndex, pinnedFrameStyle,
                      selectedIndices, now>>
       /\ FramePanelKept

(***************************************************************************)
(* Crop, hotspots, text fields, pin.                                       *)
(***************************************************************************)
\* CropPanel: the Apply Crop button.  The crop rectangle (crop,
\* completedCrop, aspect) is ReactCrop's geometry: hasCrop says whether the
\* user has drawn one of positive size when the button is pressed.
ApplyCropEnabled ==
    /\ screen = "editor"
    /\ activeTool = "crop"
    /\ ~isLoading

handleApplyCrop(hasCrop, t) ==
    /\ ApplyCropEnabled
    /\ historyIndex + 2 <= MaxHist
    /\ IF ~hasCrop
       THEN /\ error' = Err(<<"Please select an area to crop.">>)
            /\ UNCHANGED <<history, historyIndex, now>>
       ELSE LET croppedImageUrl ==
                    DataPrefix \o Png \o Base64Marker \o btoa(currentImage.bytes)
                decoded ==
                    dataURLtoFile(croppedImageUrl,
                        EditedName(<<"c", "r", "o", "p", "p", "e", "d", "-">>, t))
                added == addImageToHistory(history, historyIndex, decoded.file)
            IN /\ decoded.ok
               /\ history' = added.history
               /\ historyIndex' = added.historyIndex
               /\ now' = t
               /\ UNCHANGED error
    /\ UNCHANGED <<prompt, secondaryPrompt, isLoading, editHotspots,
                   activeTool, compositeFiles, styleSourceIndex, batchFiles,
                   pinnedFrameStyle, selectedIndices, tasks>>
    /\ FramePanelKept

\* a pointer click on the main image; the loading overlay covers the image
handleImageClick(point) ==
    /\ ImageShown
    /\ activeTool # "crop"
    /\ ~isLoading
    /\ activeTool = "retouch"
    /\ Len(editHotspots) < MaxHotspots
    /\ editHotspots' = Append(editHotspots, point)
    /\ UNCHANGED <<history, historyIndex, prompt, secondaryPrompt, isLoading,
                   error, activeTool, compositeFiles,
                   styleSourceIndex, batchFiles, pinnedFrameStyle,
                   selectedIndices, tasks, now>>
    /\ FramePanelKept

handleUndoHotspot ==
    /\ screen = "editor"
    /\ activeTool = "retouch"
    /\ ~(isLoading \/ Len(editHotspots) = 0)
    /\ editHotspots' = SubSeq(editHotspots, 1, Len(editHotspots) - 1)
    /\ UNCHANGED <<history, historyIndex, prompt, secondaryPrompt, isLoading,
                   error, activeTool, compositeFiles,
                   styleSourceIndex, batchFiles, pinnedFrameStyle,
                   selectedIndices, tasks, now>>
    /\ FramePanelKept

\* typing into the retouch textarea or the replace tool's first input
setPrompt(value) ==
    /\ screen = "editor"
    /\ IF activeTool = "retouch"
       THEN ~(isLoading \/ Len(editHotspots) = 0)
       ELSE activeTool = "replace" /\ ~isLoading
    /\ value # prompt
    /\ prompt' = value
    /\ UNCHANGED <<history, historyIndex, secondaryPrompt, isLoading, error,
                   editHotspots, activeTool, compositeFiles,
                   styleSourceIndex, batchFiles, pinnedFrameStyle,
                   selectedIndices, tasks, now>>
    /\ FramePanelKept

setSecondaryPrompt(value) ==
    /\ screen = "editor"
    /\ activeTool = "replace"
    /\ ~isLoading
    /\ value # secondaryPrompt
    /\ secondaryPrompt' = value
    /\ UNCHANGED <<history, historyIndex, prompt, isLoading, error,
                   editHotspots, activeTool, compositeFiles,
                   styleSourceIndex, batchFiles, pinnedFrameStyle,
                   selectedIndices, tasks, now>>
    /\ FramePanelKept

\* typing into FramePanel's three fields
setFrameFields(s, t, b) ==
    /\ screen = "editor"
    /\ activeTool = "frame"
    /\ ~isLoading
    /\ <<s, t, b>> # <<style, topText, bottomText>>
    /\ style' = s
    /\ topText' = t
    /\ bottomText' = b
    /\ UNCHANGED <<appVars, tasks, now, toolbox, gateway>>

\* only the style field is compared
isPinnedByStyle ==
    /\ ~pinnedFrameStyle.isNull
    /\ pinnedFrameStyle.style = style

\* FramePanel's effect: isPinned
isPinned ==
    /\ ~pinnedFrameStyle.isNull
    /\ pinnedFrameStyle.style = style
    /\ pinnedFrameStyle.topText = topText
    /\ pinnedFrameStyle.bottomText = bottomText

handlePin ==
    /\ IF isPinned
       THEN pinnedFrameStyle' = NoStyle
       ELSE IF Trim(style) = <<>>
       THEN UNCHANGED pinnedFrameStyle
       ELSE pinnedFrameStyle' = FrameStyle(style, topText, bottomText)
    /\ UNCHANGED <<history, historyIndex, prompt, secondaryPrompt, isLoading,
                   error, editHotspots, activeTool, compositeFiles, styleSourceIndex, batchFiles,
                   selectedIndices, tasks, now>>
    /\ FramePanelKept

\* FramePanel's Pin button: disabled={isLoading || !style.trim()}
PressPin == FrameButtonsEnabled /\ handlePin

(***************************************************************************)
(* Downloads.                                                              *)
(***************************************************************************)
\* Array.from(selectedIndices).map(i => history[i]); NoFile is undefined
SelectedFiles ==
    [k \in 1..Len(selectedIndices) |->
        IF selectedIndices[k] < Len(history)
        THEN At(history, selectedIndices[k]) ELSE NoFile]

ZipReplies == {"ok", "zipError"}

\* the empty list is not checked: the archive is built from no files
handleDownloadZipUnchecked(filesToZip) ==
    /\ Len(tasks) < MaxTasks
    /\ isLoading' = TRUE
    /\ error' = NoError
    /\ tasks' = Append(tasks,
           Task("zip", NoFile, <<>>, -1, filesToZip, NoStyle, <<>>, <<>>))
    /\ UNCHANGED <<history, historyIndex, prompt, secondaryPrompt,
                   editHotspots, activeTool, compositeFiles,
                   styleSourceIndex, batchFiles, pinnedFrameStyle,
                   selectedIndices, now>>
    /\ FramePanelKept

handleDownloadZip(filesToZip) ==
    /\ Len(tasks) < MaxTasks
    /\ IF Len(filesToZip) = 0
       THEN /\ error' = Err(<<"No images selected to download.">>)
            /\ UNCHANGED <<isLoading, tasks>>
       ELSE /\ isLoading' = TRUE
            /\ error' = NoError
            /\ tasks' = Append(tasks,
                   Task("zip", NoFile, <<>>, -1, filesToZip, NoStyle, <<>>,
                        <<>>))
    /\ UNCHANGED <<history, historyIndex, prompt, secondaryPrompt,
                   editHotspots, activeTool, compositeFiles,
                   styleSourceIndex, batchFiles, pinnedFrameStyle,
                   selectedIndices, now>>
    /\ FramePanelKept

DownloadSelected ==
    /\ SidePanelShown
    /\ ~(isLoading \/ Len(selectedIndices) = 0)
    /\ handleDownloadZip(SelectedFiles)

DownloadFullHistory ==
    /\ SidePanelShown
    /\ ~(isLoading \/ Len(history) < 2)
    /\ handleDownloadZip(history)

\* the characters /[^a-z0-9_.\-]/gi leaves alone
NameChars ==
    {"a", "b", "c", "d", "e", "f", "g", "h", "i", "j", "k", "l", "m", "n",
     "o", "p", "q", "r", "s", "t", "u", "v", "w", "x", "y", "z",
     "A", "B", "C", "D", "E", "F", "G", "H", "I", "J", "K", "L", "M", "N",
     "O", "P", "Q", "R", "S", "T", "U", "V", "W", "X", "Y", "Z",
     "0", "1", "2", "3", "4", "5", "6", "7", "8", "9", "_", ".", "-"}

\* file.name.replace(/[^a-z0-9_.\-]/gi, '_')
Sanitize(name) ==
    [k \in 1..Len(name) |-> IF name[k] \in NameChars THEN name[k] ELSE "_"]

\* s.padStart(n, c) for a one-character c
RECURSIVE PadStart(_, _, _)
PadStart(s, n, c) == IF Len(s) >= n THEN s ELSE PadStart(<<c>> \o s, n, c)

\* the entry is named by the file alone
EntryNameUnnumbered(file, index) == Sanitize(file.name)

\* `${String(index).padStart(3, '0')}_${fileName}`
EntryName(file, index) ==
    PadStart(NumToString(index), 3, "0") \o <<"_">> \o Sanitize(file.name)

\* zip.file(name, data): an entry of that name is replaced
zipFile(zip, name, data) ==
    IF \E k \in 1..Len(zip) : zip[k].name = name
    THEN [k \in 1..Len(zip) |->
             IF zip[k].name = name THEN [name |-> name, data |-> data]
             ELSE zip[k]]
    ELSE Append(zip, [name |-> name, data |-> data])

\* filesToZip.forEach((file, index) => zip.file(..., file)), from a new JSZip
RECURSIVE zipFiles(_, _)
zipFiles(filesToZip, n) ==
    IF n = 0 THEN <<>>
    ELSE zipFile(zipFiles(filesToZip, n - 1),
                 EntryName(filesToZip[n], n - 1), filesToZip[n])

\* the archive handleDownloadZip builds; file.name of undefined throws
zipArchive(filesToZip) ==
    IF \E k \in 1..Len(filesToZip) : filesToZip[k] = NoFile
    THEN Throw(<<"Cannot read properties of undefined (reading 'name')">>)
    ELSE Return(zipFiles(filesToZip, Len(filesToZip)))

\* the loading flag is lowered only when the archive was built
handleDownloadZipResumeKeepsLoading(i, reply) ==
    LET task == tasks[i]
        outcome ==
            IF reply = "zipError" THEN Throw(<<"Failed to create zip archive.">>)
            ELSE zipArchive(task.files)
    IN /\ task.op = "zip"
       /\ tasks' = RemoveAt(tasks, i)
       /\ isLoading' = (isLoading /\ ~outcome.ok)
       /\ IF outcome.ok
          THEN selectedIndices' = <<>> /\ UNCHANGED error
          ELSE /\ error' = Caught(outcome, "Failed to create zip archive.")
               /\ UNCHANGED selectedIndices
       /\ UNCHANGED <<history, historyIndex, prompt, secondaryPrompt,
                      editHotspots, activeTool, compositeFiles,
                      styleSourceIndex, batchFiles, pinnedFrameStyle, now>>
       /\ FramePanelKept

handleDownloadZipResume(i, reply) ==
    LET task == tasks[i]
        outcome ==
            IF reply = "zipError" THEN Throw(<<"Failed to create zip archive.">>)
            ELSE zipArchive(task.files)
    IN /\ task.op = "zip"
       /\ tasks' = RemoveAt(tasks, i)
       /\ isLoading' = FALSE
       /\ IF outcome.ok
          THEN selectedIndices' = <<>> /\ UNCHANGED error
          ELSE /\ error' = Caught(outcome, "Failed to create zip archive.")
               /\ UNCHANGED selectedIndices
       /\ UNCHANGED <<history, historyIndex, prompt, secondaryPrompt,
                      editHotspots, activeTool, compositeFiles,
                      styleSourceIndex, batchFiles, pinnedFrameStyle, now>>
       /\ FramePanelKept

(***************************************************************************)
(* The application: any enabled control, or any awaited call settling.     *)
(***************************************************************************)
Clock == now..MaxNow

Next ==
    \/ \E file \in StartFiles : handleStartEditing(file)
    \/ TryAgain
    \/ \E tool \in Tools : setActiveTool(tool)
    \/ \E files \in Selections : SelectCompositeFiles(files)
    \/ \E files \in Selections : SelectBatchFiles(files)
    \/ PressUndo
    \/ PressRedo
    \/ handleReset
    \/ handleUploadNew
    \/ \E index \in 0..(MaxHist + MaxFiles) : jumpTo(index)
    \/ \E index \in 0..(MaxHist + MaxFiles) : handleToggleSelection(index)
    \/ SubmitGenerate
    \/ handleApplyCreativeStyle(CHOOSE p \in StylePromptValues : TRUE)
    \/ handleApplyAdjustment(CHOOSE p \in AdjustmentValues : TRUE)
    \/ SubmitReplace
    \/ handleApply
    \/ PressGenerateComposite
    \/ PressApplyToBatch
    \/ \E index \in 0..MaxFiles : setStyleSourceIndex(index)
    \/ StartOver
    \/ \E t \in Clock : handleApplyCrop(TRUE, t)
    \/ \E point \in Points : handleImageClick(point)
    \/ handleUndoHotspot
    \/ \E value \in PromptValues : setPrompt(value)
    \/ \E value \in SecondaryValues : setSecondaryPrompt(value)
    \/ \E s \in FrameStyleValues, t \in TopTextValues, b \in BottomTextValues :
           setFrameFields(s, t, b)
    \/ PressPin
    \/ DownloadSelected
    \/ DownloadFullHistory
    \/ \E i \in 1..Len(tasks), reply \in Replies, t \in Clock :
           handleGenerateResume(i, reply, t)
    \/ \E i \in 1..Len(tasks), reply \in Replies, t \in Clock :
           handleApplyCreativeStyleResume(i, reply, t)
    \/ \E i \in 1..Len(tasks), reply \in Replies, t \in Clock :
           handleApplyAdjustmentResume(i, reply, t)
    \/ \E i \in 1..Len(tasks), reply \in Replies, t \in Clock :
           handleReplaceObjectResume(i, reply, t)
    \/ \E i \in 1..Len(tasks), reply \in Replies, t \in Clock :
           handleApplyFrameResume(i, reply, t)
    \/ \E i \in 1..Len(tasks), reply \in Replies, t \in Clock :
           handleGenerateCompositeResume(i, reply, t)
    \/ \E i \in 1..Len(tasks), reply \in Replies :
           handleApplyFrameToBatchResume(i, reply)
    \/ \E i \in 1..Len(tasks), reply \in ZipReplies :
           handleDownloadZipResume(i, reply)

Spec == Init /\ [][Next]_vars

\* the awaited call of task i settles with this reply and its handler runs on
SettlesWith(i, reply) ==
    \/ /\ reply \in Replies
       /\ \E t \in Clock :
              \/ handleGenerateResume(i, reply, t)
              \/ handleApplyCreativeStyleResume(i, reply, t)
              \/ handleApplyAdjustmentResume(i, reply, t)
              \/ handleReplaceObjectResume(i, reply, t)
              \/ handleApplyFrameResume(i, reply, t)
              \/ handleGenerateCompositeResume(i, reply, t)
    \/ reply \in Replies /\ handleApplyFrameToBatchResume(i, reply)
    \/ reply \in ZipReplies /\ handleDownloadZipResume(i, reply)

\* the replies that come before anything was sent or built: the file could
\* not be read, the archive could not be made
EarlyReplies == {"readError", "zipError"}

\* an awaited call settles: it fails early, or the service or the archive
\* library answers
Settles ==
    \E i \in 1..Len(tasks) :
        \/ \E reply \in EarlyReplies : SettlesWith(i, reply)
        \/ \E reply \in (Replies \cup ZipReplies) \ EarlyReplies :
               SettlesWith(i, reply)

\* a user who has a tool open and ready: an image or source files in place,
\* the fields filled in, a style pinned
InitLive ==
    /\ activeTool \in Tools
    /\ history = IF activeTool = "batch" THEN <<>> ELSE Selection(2)
    /\ historyIndex = Len(history) - 1
    /\ prompt = <<"p">>
    /\ secondaryPrompt = <<"q">>
    /\ isLoading = FALSE
    /\ error = NoError
    /\ editHotspots \in {<<point>> : point \in Points}
    /\ compositeFiles =
           IF activeTool = "composite" THEN Selection(MaxFiles) ELSE <<>>
    /\ styleSourceIndex = 0
    /\ batchFiles = IF activeTool = "batch" THEN Selection(2) ELSE <<>>
    /\ pinnedFrameStyle = FrameStyle(<<"g">>, <<>>, <<>>)
    /\ selectedIndices \in {<<>>} \cup {<<0>> : n \in {Len(history)} \ {0}}
    /\ style = IF activeTool = "frame" THEN <<"g">> ELSE <<>>
    /\ topText = <<>>
    /\ bottomText = <<>>
    /\ tasks = <<>>
    /\ now = 0
    /\ toolbox = {activeTool}
    /\ gateway = NoCall

\* the buttons that start a call, the thumbnails, Try Again, and the calls
\* settling
NextLive ==
    \/ SubmitGenerate
    \/ handleApplyCreativeStyle(CHOOSE p \in StylePromptValues : TRUE)
    \/ handleApplyAdjustment(CHOOSE p \in AdjustmentValues : TRUE)
    \/ SubmitReplace
    \/ handleApply
    \/ PressGenerateComposite
    \/ PressApplyToBatch
    \/ DownloadSelected
    \/ DownloadFullHistory
    \/ \E index \in 0..MaxHist : jumpTo(index)
    \/ TryAgain
    \/ Settles

\* every awaited call settles in the end: a promise that is pending is
\* resolved or rejected, and the event loop then runs the rest of its handler
SpecLive == InitLive /\ [][NextLive]_vars /\ WF_vars(Settles)

(***************************************************************************)
(* The gateway's classification on its own: a response from a bounded set  *)
(* is handed to handleApiResponse.                                         *)
(***************************************************************************)
BlockReasons == {<<>>, <<"SAFETY">>, <<"OTHER">>}

BlockMessages == {<<>>, <<"no">>}

FinishReasons == {<<>>, <<"STOP">>, <<"MAX_TOKENS">>}

PartLists ==
    {<<>>, <<TextPart(<<"n", "o">>)>>, <<ImagePart(Png, <<"Q", "Q", "=", "=">>)>>,
     <<TextPart(<<"n", "o">>), ImagePart(Png, <<"Q", "Q", "=", "=">>)>>}

CandidateLists ==
    {<<>>}
        \cup {<<Candidate(fr, parts)>> : fr \in FinishReasons, parts \in PartLists}
        \cup {<<Candidate(<<"STOP">>, <<>>), Candidate(fr, parts)>> :
                  fr \in {<<"MAX_TOKENS">>}, parts \in PartLists}

ResponseTexts == {<<>>, <<" ">>, <<" ", "n", "o">>}

Responses ==
    {Response(br, brm, cands, text) :
        br \in BlockReasons, brm \in BlockMessages,
        cands \in CandidateLists, text \in ResponseTexts}

Contexts == {<<"edit">>, <<"frame">>}

InitApi ==
    /\ InitApp
    /\ toolbox = {"retouch"}
    /\ \E response \in Responses, context \in Contexts :
           gateway = [pc |-> "called", response |-> response,
                      context |-> context]

Classify ==
    /\ gateway.pc = "called"
    /\ gateway' = [pc |-> "settled", response |-> gateway.response,
                   context |-> gateway.context,
                   outcome |-> handleApiResponse(gateway.response,
                                                 gateway.context)]
    /\ UNCHANGED <<appVars, frameVars, tasks, now, toolbox>>

NextApi == Classify

SpecApi == InitApi /\ [][NextApi]_vars

(***************************************************************************)
(* The handlers on their own: from a state of the application drawn from   *)
(* a bounded set, a handler is called whatever its button shows, as its    *)
(* guard clauses allow for.                                                *)
(***************************************************************************)
BlankValues == {<<>>, <<" ">>}

CallHistories == {Slice(Selection(MaxFiles), 0, n) : n \in 0..2}

InitCalls ==
    /\ history \in CallHistories
    /\ historyIndex = Len(history) - 1
    /\ prompt \in PromptValues \cup BlankValues
    /\ secondaryPrompt \in SecondaryValues
    /\ isLoading = FALSE
    /\ error = NoError
    /\ editHotspots \in {<<>>} \cup {<<point>> : point \in Points}
    /\ activeTool = "frame"
    /\ compositeFiles \in {<<>>, Selection(MaxFiles)}
    /\ styleSourceIndex = 0
    /\ batchFiles = <<>>
    /\ pinnedFrameStyle = NoStyle
    /\ selectedIndices \in {<<>>} \cup {<<0>> : n \in {Len(history)} \ {0, 1}}
    /\ style \in IF history = <<>> THEN {<<>>}
                 ELSE FrameStyleValues \cup BlankValues
    /\ topText = <<>>
    /\ bottomText = <<>>
    /\ tasks = <<>>
    /\ now = 0
    /\ toolbox = {"retouch", "frame"}
    /\ gateway = NoCall

NextCalls ==
    \/ handleGenerate
    \/ handleReplaceObject
    \/ handleApplyFrame
    \/ handleGenerateComposite
    \/ \E filesToZip \in {<<>>, SelectedFiles, history} :
           handleDownloadZip(filesToZip)
    \/ \E i \in 1..Len(tasks), reply \in Replies, t \in Clock :
           handleGenerateResume(i, reply, t)
    \/ \E i \in 1..Len(tasks), reply \in Replies, t \in Clock :
           handleReplaceObjectResume(i, reply, t)
    \/ \E i \in 1..Len(tasks), reply \in Replies, t \in Clock :
           handleApplyFrameResume(i, reply, t)
    \/ \E i \in 1..Len(tasks), reply \in Replies, t \in Clock :
           handleGenerateCompositeResume(i, reply, t)
    \/ \E i \in 1..Len(tasks), reply \in ZipReplies :
           handleDownloadZipResume(i, reply)

SpecCalls == InitCalls /\ [][NextCalls]_vars

(***************************************************************************)
(* The archive's entries on their own: a list of files from a bounded set  *)
(* is handed to the loop of handleDownloadZip.                             *)
(***************************************************************************)
ZipNames ==
    {<<"a">>, <<"a", " ", "b">>, <<"a", "_", "b">>,
     <<"x", "/", "Y", "-", "1", ".", "p", "n", "g">>}

ZipFiles == {File(name, Png, <<65>>) : name \in ZipNames}

\* every list of 1..MaxZip files, and one list of MaxZipLong files
ZipLists ==
    UNION {[1..n -> ZipFiles] : n \in 1..MaxZip}
        \cup {[k \in 1..MaxZipLong |-> File(<<"a">>, Png, <<65>>)]}

InitZip ==
    /\ InitApp
    /\ toolbox = {"retouch"}
    /\ \E filesToZip \in ZipLists :
           gateway = [pc |-> "called", filesToZip |-> filesToZip]

BuildArchive ==
    /\ gateway.pc = "called"
    /\ gateway' = [pc |-> "settled", filesToZip |-> gateway.filesToZip,
                   outcome |-> zipArchive(gateway.filesToZip)]
    /\ UNCHANGED <<appVars, frameVars, tasks, now, toolbox>>

NextZip == BuildArchive

SpecZip == InitZip /\ [][NextZip]_vars

(***************************************************************************)
(* The download selection on its own: a user who opens no tool, with a     *)
(* history drawn from a bounded set, selects thumbnails, moves through the *)
(* history and exports.                                                    *)
(***************************************************************************)
InitSelect ==
    /\ history \in {Selection(n) : n \in 2..MaxHist}
    /\ historyIndex = Len(history) - 1
    /\ prompt = <<>>
    /\ secondaryPrompt = <<>>
    /\ isLoading = FALSE
    /\ error = NoError
    /\ editHotspots = <<>>
    /\ activeTool = "retouch"
    /\ compositeFiles = <<>>
    /\ styleSourceIndex = 0
    /\ batchFiles = <<>>
    /\ pinnedFrameStyle = NoStyle
    /\ selectedIndices = <<>>
    /\ style = <<>>
    /\ topText = <<>>
    /\ bottomText = <<>>
    /\ tasks = <<>>
    /\ now = 0
    /\ toolbox = {}
    /\ gateway = NoCall

NextSelect ==
    \/ \E index \in 0..MaxHist : handleToggleSelection(index)
    \/ \E index \in 0..MaxHist : jumpTo(index)
    \/ PressUndo
    \/ PressRedo
    \/ handleReset
    \/ handleUploadNew
    \/ TryAgain
    \/ DownloadSelected
    \/ DownloadFullHistory
    \/ \E i \in 1..Len(tasks), reply \in ZipReplies :
           handleDownloadZipResume(i, reply)

SpecSelect == InitSelect /\ [][NextSelect]_vars

(***************************************************************************)
(* The transport encoding on its own: a string from a bounded set is       *)
(* decoded by dataURLtoFile; a file from a bounded set is read by          *)
(* fileToPart, its part comes back as handleApiResponse hands it on, and   *)
(* is decoded.                                                             *)
(***************************************************************************)
UrlChars == {":", ";", ",", "a", "\n"}

DataUrls == UNION {[1..n -> UrlChars] : n \in 0..MaxUrl}

ByteValues == {0, 65, 255}

CodecFiles ==
    {File(<<"f">>, type, bytes) :
         type \in {Png, <<>>},
         bytes \in UNION {[1..n -> ByteValues] : n \in 0..MaxBytes}}

InitCodec ==
    /\ InitApp
    /\ toolbox = {"retouch"}
    /\ \/ \E dataurl \in DataUrls :
              gateway = [pc |-> "called", fn |-> "dataURLtoFile",
                         dataurl |-> dataurl]
       \/ \E file \in CodecFiles : \E dataUrl \in readAsDataURLs(file) :
              gateway = [pc |-> "called", fn |-> "fileToPart",
                         file |-> file, dataUrl |-> dataUrl]

Decode ==
    /\ gateway.pc = "called"
    /\ gateway.fn = "dataURLtoFile"
    /\ gateway' = [gateway EXCEPT !.pc = "settled"]
                       @@ [outcome |-> dataURLtoFile(gateway.dataurl, <<"f">>)]
    /\ UNCHANGED <<appVars, frameVars, tasks, now, toolbox>>

Encode ==
    /\ gateway.pc = "called"
    /\ gateway.fn = "fileToPart"
    /\ gateway' = [gateway EXCEPT !.pc = "encoded"]
                       @@ [encoded |-> partOfDataUrl(gateway.dataUrl)]
    /\ UNCHANGED <<appVars, frameVars, tasks, now, toolbox>>

\* the part comes back unchanged, and handleApiResponse's URL is decoded
DecodeEncoded ==
    /\ gateway.pc = "encoded"
    /\ gateway.encoded.ok
    /\ gateway' = [gateway EXCEPT !.pc = "settled"]
                       @@ [outcome |->
                              dataURLtoFile(ImageUrl(gateway.encoded.part).value,
                                            gateway.file.name)]
    /\ UNCHANGED <<appVars, frameVars, tasks, now, toolbox>>

NextCodec == Decode \/ Encode \/ DecodeEncoded

SpecCodec == InitCodec /\ [][NextCodec]_vars

(***************************************************************************)
(* The pickers and the cursor buttons on their own: from a state of the    *)
(* application drawn from a bounded set, each handler is called whatever   *)
(* the screen shows and whatever its button allows.                        *)
(***************************************************************************)
InitPickers ==
    /\ history \in CallHistories
    /\ historyIndex = Len(history) - 1
    /\ prompt = <<>>
    /\ secondaryPrompt = <<>>
    /\ isLoading = FALSE
    /\ error = NoError
    /\ editHotspots \in IF history = <<>> THEN {<<>>}
                        ELSE {<<>>} \cup {<<point>> : point \in Points}
    /\ activeTool = "composite"
    /\ compositeFiles \in {<<>>, Selection(MaxFiles)}
    /\ styleSourceIndex \in
           IF compositeFiles = <<>> THEN {0} ELSE 0..(Len(compositeFiles) - 1)
    /\ batchFiles \in {<<>>, Selection(2)}
    /\ pinnedFrameStyle = NoStyle
    /\ selectedIndices \in {<<>>} \cup {<<0>> : n \in {Len(history)} \ {0}}
    /\ style = <<>>
    /\ topText = <<>>
    /\ bottomText = <<>>
    /\ tasks = <<>>
    /\ now = 0
    /\ toolbox = {"retouch"}
    /\ gateway = NoCall

NextPickers ==
    \/ \E files \in Selections \cup {Selection(2)} :
           handleCompositeFilesSelect(files)
    \/ \E files \in Selections : handleBatchFilesSelect(files)
    \/ handleUndo
    \/ handleRedo

SpecPickers == InitPickers /\ [][NextPickers]_vars

(***************************************************************************)
(* The pin and the batch run on their own: the form, the pinned style and  *)
(* the batch source list are drawn from bounded sets, and the handlers are *)
(* called whatever their buttons allow.                                    *)
(***************************************************************************)
PinTexts == {<<>>, <<"t">>}

PinnedStyles ==
    {NoStyle} \cup
        {FrameStyle(s, t, b) :
            s \in FrameStyleValues \ {<<>>}, t \in PinTexts, b \in PinTexts}

\* what the style field may hold: empty, blank, a style, a style and a space
PinFormStyles == FrameStyleValues \cup BlankValues \cup {<<"g", " ">>}

InitPin ==
    /\ history = Selection(1)
    /\ historyIndex = 0
    /\ prompt = <<>>
    /\ secondaryPrompt = <<>>
    /\ isLoading = FALSE
    /\ error = NoError
    /\ editHotspots = <<>>
    /\ activeTool = "frame"
    /\ compositeFiles = <<>>
    /\ styleSourceIndex = 0
    /\ batchFiles \in {<<>>, Selection(2)}
    /\ pinnedFrameStyle \in PinnedStyles
    /\ selectedIndices = <<>>
    /\ style \in PinFormStyles
    /\ topText \in PinTexts
    /\ bottomText \in PinTexts
    /\ tasks = <<>>
    /\ now = 0
    /\ toolbox = {"frame", "batch"}
    /\ gateway = NoCall

NextPin ==
    \/ handlePin
    \/ handleApplyFrameToBatch
    \/ \E i \in 1..Len(tasks), reply \in Replies :
           handleApplyFrameToBatchResume(i, reply)

SpecPin == InitPin /\ [][NextPin]_vars

(***************************************************************************)
(* Properties.                                                             *)
(***************************************************************************)
\* s occurs in m as a run of consecutive chunks starting at position k
ChunksAt(m, k, s) == k + Len(s) - 1 <= Len(m) /\ SubSeq(m, k, k + Len(s) - 1) = s

\* C1: in every reachable state the cursor is -1 exactly when the history
\* is empty, and otherwise 0 <= cursor < length of the history.
CursorInRange ==
    /\ (historyIndex = -1) <=> (history = <<>>)
    /\ history # <<>> => 0 <= historyIndex /\ historyIndex < Len(history)

\* a batch run has failed on its first item, after batch selection emptied
\* the history
CursorInRangeWitness ==
    /\ history = <<>>
    /\ historyIndex = -1
    /\ activeTool = "batch"
    /\ batchFiles # <<>>
    /\ ~error.isNull
    /\ ~isLoading

FailingReplies == Replies \ {"image"}

\* the awaited call of the single-image edit tasks[i] settles with reply
EditSettles(i, reply) ==
    \E t \in Clock :
        \/ handleGenerateResume(i, reply, t)
        \/ handleApplyCreativeStyleResume(i, reply, t)
        \/ handleApplyAdjustmentResume(i, reply, t)
        \/ handleReplaceObjectResume(i, reply, t)
        \/ handleApplyFrameResume(i, reply, t)

\* a step that appends to the history: a crop, or an edit whose call succeeded
Appends ==
    \/ \E t \in Clock : handleApplyCrop(TRUE, t)
    \/ \E i \in 1..Len(tasks) : EditSettles(i, "image")

\* C2: after append(x), undo() makes current() the asset that was current
\* before the append, and the redo() that follows makes current() x again.
AppendUndoRedo ==
    [][Appends =>
         LET x == At(history', Len(history') - 1)
             undone == IF historyIndex' > 0
                       THEN historyIndex' - 1 ELSE historyIndex'
             redone == IF undone < Len(history') - 1
                       THEN undone + 1 ELSE undone
         IN /\ At(history', undone) = currentImage
            /\ At(history', redone) = x]_vars

\* C3: append(asset) at cursor i yields the entries 0..i unchanged followed
\* by asset, with the cursor on the new last index, so that redo() is a
\* no-op right after it.
AppendTruncates ==
    [][Appends =>
         /\ history' = Append(Slice(history, 0, historyIndex + 1),
                              At(history', Len(history') - 1))
         /\ historyIndex' = Len(history') - 1
         /\ ~(historyIndex' < Len(history') - 1)]_vars

\* the awaited call of a single-image edit or of a composite generation
\* fails, or its result cannot be decoded
AttemptFails(i) ==
    \E reply \in FailingReplies :
        \/ EditSettles(i, reply)
        \/ \E t \in Clock : handleGenerateCompositeResume(i, reply, t)

OneCallInFlight ==
    /\ Len(tasks) <= 1
    /\ isLoading <=> tasks # <<>>
    /\ \A i \in 1..Len(tasks) :
           LET task == tasks[i]
           IN /\ task.op # "zip" => Len(task.sent) = Len(task.results) + 1
              /\ task.op = "batch" =>
                     \A k \in 1..Len(task.sent) :
                         task.sent[k] = FrameRequest(task.files[k], task.pinned)

\* a batch run awaits the call for its last source
OneCallInFlightWitness ==
    /\ isLoading
    /\ Len(tasks) = 1
    /\ tasks[1].op = "batch"
    /\ Len(tasks[1].files) = MaxFiles
    /\ Len(tasks[1].sent) = MaxFiles
    /\ Len(tasks[1].results) = MaxFiles - 1

\* the result the batch handler makes of source file
Framed(file) == File(BatchName(file), file.type, file.bytes)

\* C6: a batch run whose first failing call is the one for source k has
\* issued the calls for sources 1..k only, in order, and stops; it reports
\* an error; when k > 1 the history becomes the results of sources 1..k-1
\* with the cursor on the last, when k = 1 history and cursor stay as they
\* were.
BatchStopsAtFirstFailure ==
    [][\A i \in 1..Len(tasks), reply \in FailingReplies :
         (tasks[i].op = "batch" /\ handleApplyFrameToBatchResume(i, reply)) =>
             LET task == tasks[i]
                 k == Len(task.results) + 1
             IN /\ Len(task.sent) = k
                /\ \A j \in 1..k :
                       task.sent[j] = FrameRequest(task.files[j], task.pinned)
                /\ tasks' = RemoveAt(tasks, i)
                /\ ~error'.isNull
                /\ k > 1 =>
                       /\ history' = [j \in 1..(k - 1) |-> Framed(task.files[j])]
                       /\ historyIndex' = k - 2
                /\ k = 1 =>
                       /\ UNCHANGED <<history, historyIndex>>
                       /\ history' = task.history
                       /\ historyIndex' = task.historyIndex]_vars

\* a batch run over MaxFiles sources has failed on the last one
BatchStopsAtFirstFailureWitness ==
    /\ ~isLoading
    /\ ~error.isNull
    /\ activeTool = "batch"
    /\ batchFiles = Selection(MaxFiles)
    /\ history = [j \in 1..(MaxFiles - 1) |-> Framed(UserFile(j))]
    /\ historyIndex = MaxFiles - 2

\* C7: a batch run all of whose calls succeed replaces the history with one
\* result per selected source, in source order, puts the cursor on the last
\* one, empties the batch source list and reports no error.
BatchCompletes ==
    [][\A i \in 1..Len(tasks) :
         (/\ tasks[i].op = "batch"
          /\ Len(tasks[i].results) = Len(tasks[i].files) - 1
          /\ handleApplyFrameToBatchResume(i, "image")) =>
             LET task == tasks[i]
                 n == Len(batchFiles)
             IN /\ task.files = batchFiles
                /\ Len(task.sent) = n
                /\ history' = [j \in 1..n |-> Framed(batchFiles[j])]
                /\ historyIndex' = n - 1
                /\ batchFiles' = <<>>
                /\ error'.isNull]_vars

\* a batch run over MaxFiles sources has completed
BatchCompletesWitness ==
    /\ ~isLoading
    /\ error.isNull
    /\ batchFiles = <<>>
    /\ activeTool = "retouch"
    /\ history = [j \in 1..MaxFiles |-> Framed(UserFile(j))]
    /\ historyIndex = MaxFiles - 1

\* C8: every response that carries a block reason is classified as a
\* blocked request, the failure carrying that reason, whether or not its
\* first candidate holds an image part.
BlockReasonFirst ==
    (gateway.pc = "settled" /\ Truthy(gateway.response.blockReason)) =>
        LET outcome == gateway.outcome
        IN /\ ~outcome.ok
           /\ outcome.isError
           /\ outcome.message[1] = BlockedText
           /\ ChunksAt(outcome.message, 2, gateway.response.blockReason)

\* the first candidate of x holds an image part
HasImage(x) ==
    /\ x.candidates # <<>>
    /\ \E k \in 1..Len(x.candidates[1].parts) :
           x.candidates[1].parts[k].inlineData

\* a blocked response whose first candidate holds an image part was classified
BlockReasonFirstWitness ==
    /\ gateway.pc = "settled"
    /\ Truthy(gateway.response.blockReason)
    /\ HasImage(gateway.response)
    /\ ~gateway.outcome.ok

\* C9: a response without a block reason is a success when its first
\* candidate holds an image part, whatever the finish reason; otherwise a
\* finish reason that is present and is not STOP gives the stopped failure
\* carrying that reason; otherwise the no-image failure, which carries the
\* response's text when the text is not blank.
UnblockedClassification ==
    (gateway.pc = "settled" /\ ~Truthy(gateway.response.blockReason)) =>
        LET x == gateway.response
            outcome == gateway.outcome
            reason == IF x.candidates = <<>> THEN <<>>
                      ELSE x.candidates[1].finishReason
            at == Len(gateway.context) + 2
        IN IF HasImage(x) THEN outcome.ok
           ELSE IF reason # <<>> /\ reason # <<"STOP">>
           THEN /\ ~outcome.ok
                /\ outcome.isError
                /\ ChunksAt(outcome.message, at, <<StoppedText>> \o reason)
           ELSE /\ ~outcome.ok
                /\ outcome.isError
                /\ outcome.message[1] = NoImageText
                /\ IF Trim(x.text) # <<>>
                   THEN ChunksAt(outcome.message, at + 1,
                                 <<RespondedText>> \o Trim(x.text))
                   ELSE RespondedText \notin Range(outcome.message)

\* an unblocked response with an image part and the finish reason
\* MAX_TOKENS was classified
UnblockedClassificationWitness ==
    /\ gateway.pc = "settled"
    /\ ~Truthy(gateway.response.blockReason)
    /\ HasImage(gateway.response)
    /\ gateway.response.candidates[1].finishReason = <<"MAX_TOKENS">>
    /\ gateway.outcome.ok

\* the number of positions of seq that hold f
Count(seq, f) == Cardinality({k \in 1..Len(seq) : seq[k] = f})

\* C10: a composite generation over the working set W with style source s
\* sends the list that starts with W[s] and goes on with the other elements
\* of W in their order; the list is a permutation of W and W itself stays
\* as it is.
CompositeOrder ==
    [][(/\ Len(tasks') = Len(tasks) + 1
        /\ tasks'[Len(tasks')].op = "composite") =>
           LET W == compositeFiles
               s == styleSourceIndex
               task == tasks'[Len(tasks')]
               sent == task.sent[1].files
           IN /\ Len(W) >= 2
              /\ Len(task.sent) = 1
              /\ task.files = sent
              /\ Len(sent) = Len(W)
              /\ sent[1] = At(W, s)
              /\ \A j \in 2..Len(W) :
                     sent[j] = W[IF j - 1 <= s THEN j - 1 ELSE j]
              /\ \A f \in Range(W) \cup Range(sent) :
                     Count(sent, f) = Count(W, f)
              /\ compositeFiles' = W]_vars

\* a composite generation is in flight whose style source is the last file
CompositeOrderWitness ==
    /\ isLoading
    /\ Len(tasks) = 1
    /\ tasks[1].op = "composite"
    /\ Len(compositeFiles) = MaxFiles
    /\ tasks[1].sent[1].files =
           <<UserFile(MaxFiles)>> \o Selection(MaxFiles - 1)

\* C11: jumpTo(index), for any index of the history, sets the cursor to
\* exactly that index, so that the current image is history[index], whatever
\* the cursor was before, and leaves the history as it was.
JumpSetsCursor ==
    [][\A index \in 0..(MaxHist + MaxFiles) :
           jumpTo(index) =>
               /\ historyIndex' = index
               /\ history' = history
               /\ currentImage' = At(history, index)]_vars

\* a jump over more than one entry: an edit was begun at entry 0 of three,
\* and while it is in flight (undo and redo disabled) the cursor is on entry 2
JumpSetsCursorWitness ==
    /\ Len(history) = 3
    /\ historyIndex = 2
    /\ \E i \in 1..Len(tasks) :
           tasks[i].op = "edit" /\ tasks[i].historyIndex = 0

\* a step that applies an edit successfully: an append, or a composite or a
\* batch that completes
EditApplied ==
    \/ Appends
    \/ \E i \in 1..Len(tasks), t \in Clock :
           handleGenerateCompositeResume(i, "image", t)
    \/ \E i \in 1..Len(tasks) :
           /\ handleApplyFrameToBatchResume(i, "image")
           /\ Len(tasks') < Len(tasks)

\* C12: the hotspot list is empty right after every successful edit
\* application (localized edit, replace, style, adjustment, frame, crop,
\* composite or batch completion) and after every undo or redo that moves
\* the cursor.
HotspotsClearedByEdits ==
    [][(EditApplied \/ (handleUndo /\ canUndo) \/ (handleRedo /\ canRedo))
           => editHotspots' = <<>>]_vars

\* a step that begins a session: start, or a composite or a batch completing
SessionBegins ==
    \/ \E file \in StartFiles : handleStartEditing(file)
    \/ \E i \in 1..Len(tasks), t \in Clock :
           handleGenerateCompositeResume(i, "image", t)
    \/ \E i \in 1..Len(tasks) :
           /\ handleApplyFrameToBatchResume(i, "image")
           /\ Len(tasks') < Len(tasks)

\* a batch selection that is accepted, or a batch that fails after at least
\* one of its sources was framed
BatchReplacesHistory ==
    \/ \E files \in Selections :
           handleBatchFilesSelect(files) /\ Len(files) > 0
    \/ \E i \in 1..Len(tasks), reply \in FailingReplies :
           /\ handleApplyFrameToBatchResume(i, reply)
           /\ Len(tasks[i].results) > 0

\* C13, as stated: from a start, composite completion or batch completion
\* until the next of those or upload-new, no step changes history[0], which
\* is what original() returns (the no-image value when the history is empty).
FirstEntryFixedInSession ==
    [][~(SessionBegins \/ handleUploadNew) =>
           /\ originalImage' = originalImage
           /\ originalImage' = IF history' = <<>> THEN NoFile
                               ELSE At(history', 0)]_vars

\* C13, amended: every step other than a start, a composite or batch
\* completion, upload-new, an accepted batch selection (it empties the
\* history) and a batch failing with partial results (it installs them)
\* leaves history[0] identical: append, undo, redo, jumpTo, reset, failed
\* edits and export among them; original() is history[0], or the no-image
\* value when the history is empty.
FirstEntryFixed ==
    [][~(SessionBegins \/ handleUploadNew \/ BatchReplacesHistory) =>
           /\ originalImage' = originalImage
           /\ originalImage' = IF history' = <<>> THEN NoFile
                               ELSE At(history', 0)]_vars

\* two appends, a move of the cursor and a failed edit later the first entry
\* is still the uploaded file
FirstEntryFixedWitness ==
    /\ Len(history) = 3
    /\ historyIndex = 1
    /\ ~error.isNull
    /\ originalImage \in StartFiles

\* C14: the pinned style is changed only by the pin/unpin button: undo, redo,
\* jumpTo, reset, append, start, upload-new, composite and batch operations
\* (every step that is not a press of that button) leave it unchanged.
PinnedOnlyByPin ==
    [][~PressPin => pinnedFrameStyle' = pinnedFrameStyle]_vars

\* a style is still pinned after a batch was selected and completed with it
\* and the cursor was moved back to the first framed image
PinnedOnlyByPinWitness ==
    /\ ~pinnedFrameStyle.isNull
    /\ Len(history) = MaxFiles
    /\ historyIndex = 0
    /\ originalImage = Framed(At(Selection(MaxFiles), 0))

\* C15: exporting an empty list of assets fails with an error message and
\* builds no archive: the loading flag is not raised, no archive task is
\* started, and the download selection and the history stay as they were.
EmptyExportRefused ==
    [][handleDownloadZip(<<>>) =>
           /\ ~error'.isNull
           /\ error'.message = <<"No images selected to download.">>
           /\ UNCHANGED <<isLoading, tasks, selectedIndices, history,
                          historyIndex>>]_vars

\* an empty list was exported while two images were in the history and one
\* was selected
EmptyExportRefusedWitness ==
    /\ error = Err(<<"No images selected to download.">>)
    /\ ~isLoading
    /\ tasks = <<>>
    /\ selectedIndices = <<0>>
    /\ Len(history) = 2

\* C16: exporting a non-empty list of n assets gives exactly n archive
\* entries; entry k (from 0) holds asset k and is named by the three-digit
\* zero-padded k, an underscore, and the asset's filename with every
\* character outside [A-Za-z0-9_.-] replaced by '_'; the n names are
\* pairwise distinct, also when assets share a filename.
ArchiveEntryNames ==
    gateway.pc = "settled" =>
        LET files == gateway.filesToZip
            zip == gateway.outcome.value
            n == Len(files)
        IN /\ gateway.outcome.ok
           /\ Len(zip) = n
           /\ \A j \in 1..n :
                  LET k == j - 1
                      fileName == files[j].name
                      entryName == zip[j].name
                  IN /\ zip[j].data = files[j]
                     /\ Len(entryName) = 4 + Len(fileName)
                     /\ SubSeq(entryName, 1, 4) =
                            <<Digit(k \div 100), Digit((k \div 10) % 10),
                              Digit(k % 10), "_">>
                     /\ \A c \in 1..Len(fileName) :
                            entryName[4 + c] =
                                IF fileName[c] \in NameChars
                                THEN fileName[c] ELSE "_"
           /\ \A j, l \in 1..n : j # l => zip[j].name # zip[l].name

\* three files were archived, two of the same name with a blank in it and a
\* third whose name is what the blank is replaced into
ArchiveEntryNamesWitness ==
    /\ gateway.pc = "settled"
    /\ gateway.filesToZip =
           <<File(<<"a", " ", "b">>, Png, <<65>>),
             File(<<"a", " ", "b">>, Png, <<65>>),
             File(<<"a", "_", "b">>, Png, <<65>>)>>
    /\ gateway.outcome.value[2].name = <<"0", "0", "1", "_", "a", "_", "b">>

\* the archive of tasks[i] is built and handed to the browser
ExportSucceeds(i) ==
    /\ handleDownloadZipResume(i, "ok")
    /\ zipArchive(tasks[i].files).ok

\* C17: the download selection is empty right after a successful export,
\* after reset and after upload-new; toggle(index) flips the membership of
\* exactly that index and leaves every other member, the history and the
\* cursor unchanged.
SelectionLaw ==
    [][/\ (\E i \in 1..Len(tasks) : ExportSucceeds(i))
              => selectedIndices' = <<>>
       /\ handleReset => selectedIndices' = <<>>
       /\ handleUploadNew => selectedIndices' = <<>>
       /\ \A index \in 0..MaxHist :
              handleToggleSelection(index) =>
                  /\ (index \in Range(selectedIndices'))
                         <=> (index \notin Range(selectedIndices))
                  /\ Range(selectedIndices') \ {index}
                         = Range(selectedIndices) \ {index}
                  /\ Cardinality(Range(selectedIndices'))
                         = Len(selectedIndices')
                  /\ UNCHANGED <<history, historyIndex>>]_vars

\* two thumbnails were selected and their export begun, and a third one was
\* toggled on while the other two stayed selected
SelectionLawWitness ==
    /\ Len(selectedIndices) = 3
    /\ \E i \in 1..Len(tasks) :
           tasks[i].op = "zip" /\ Len(tasks[i].files) = 2

\* the part of a string before its first ','
BeforeComma(s) ==
    IF Positions(s, ",") = {} THEN s
    ELSE SubSeq(s, 1, Min(Positions(s, ",")) - 1)

\* some non-empty text stands between a ':' and a later ';'
HasMimeText(s) ==
    \E i \in Positions(s, ":"), j \in Positions(s, ";") : j > i + 1

\* C18: decoding a transport string that has no ',', or whose part before
\* the first ',' has no non-empty text between a ':' and a ';', fails with a
\* decoding error and gives no asset; fileToPart refuses the reader's result
\* in the same cases.
DecodeRejects ==
    /\ (/\ gateway.pc = "settled"
        /\ gateway.fn = "dataURLtoFile"
        /\ \/ Positions(gateway.dataurl, ",") = {}
           \/ ~HasMimeText(BeforeComma(gateway.dataurl)))
           => /\ ~gateway.outcome.ok
              /\ gateway.outcome.isError
              /\ gateway.outcome.message # <<>>
              /\ gateway.outcome.file = NoFile
    /\ (/\ gateway.pc = "encoded"
        /\ ~HasMimeText(BeforeComma(gateway.dataUrl)))
           => /\ ~gateway.encoded.ok
              /\ gateway.encoded.isError
              /\ gateway.encoded.part = NoPart

\* a string with a ',' and a ':' and a ';' but nothing between these two was
\* decoded
DecodeRejectsWitness ==
    /\ gateway.pc = "settled"
    /\ gateway.fn = "dataURLtoFile"
    /\ gateway.dataurl = <<":", ";", ",", "a">>
    /\ ~gateway.outcome.ok

\* C19: for every asset, encoding it to a transport string and decoding that
\* string gives an asset with the same bytes and the same MIME type.
RoundTrip ==
    gateway.fn = "fileToPart" =>
        /\ gateway.pc = "encoded" => gateway.encoded.ok
        /\ gateway.pc = "settled" =>
               /\ gateway.outcome.ok
               /\ gateway.outcome.file.bytes = gateway.file.bytes
               /\ gateway.outcome.file.type = gateway.file.type

\* no call is issued, the loading flag stays as it is, and so do the history
\* and the cursor
NothingStarted == UNCHANGED <<tasks, isLoading, history, historyIndex>>

\* C20: precondition failures are caught before any remote call: a localized
\* edit with a blank prompt or with no hotspot, a replace with a blank field,
\* a frame application with a blank style and a composite of fewer than two
\* images issue no remote call, do not raise the loading flag and leave the
\* history and the cursor unchanged.
PreconditionsFirst ==
    [][/\ (/\ handleGenerate
           /\ Trim(prompt) = <<>> \/ Len(editHotspots) = 0) => NothingStarted
       /\ (/\ handleReplaceObject
           /\ Trim(prompt) = <<>> \/ Trim(secondaryPrompt) = <<>>)
              => NothingStarted
       /\ (handleApplyFrame /\ Trim(style) = <<>>) => NothingStarted
       /\ (handleGenerateComposite /\ Len(compositeFiles) < 2)
              => NothingStarted
       /\ \A n \in 0..1, reply \in Replies :
              generateCompositedImage(Selection(n), reply)
                  = Throw(<<"Compositing requires at least two images.">>)]_vars

\* a localized edit was asked for with a prompt and no hotspot, on the second
\* of two images
PreconditionsFirstWitness ==
    /\ error = Err(<<"Please click on the image to select an area to edit.">>)
    /\ prompt = <<"p">>
    /\ editHotspots = <<>>
    /\ Len(history) = 2
    /\ historyIndex = 1
    /\ tasks = <<>>
    /\ ~isLoading

\* C21: a composite selection of fewer than two files sets an error and
\* leaves the working set and the style-source index as they were; one of
\* two or more files makes the working set exactly those files, in order,
\* and puts the style-source index at 0 whatever it was
CompositeSelectLaw ==
    [][\A files \in Selections \cup {Selection(2)} :
           handleCompositeFilesSelect(files) =>
               IF Len(files) < 2
               THEN /\ ~error'.isNull
                    /\ compositeFiles' = compositeFiles
                    /\ styleSourceIndex' = styleSourceIndex
               ELSE /\ compositeFiles' = files
                    /\ styleSourceIndex' = 0]_vars

\* two files replaced a working set, then a selection of one was refused
CompositeSelectLawWitness ==
    /\ compositeFiles = Selection(2)
    /\ styleSourceIndex = 0
    /\ ~error.isNull
    /\ error.message = <<"Please select at least two images for compositing.">>

\* the file a composite call yields when it settles with this reply
CompositeResult(i, reply, t) ==
    LET outcome == generateCompositedImage(tasks[i].files, reply)
    IN IF outcome.ok
       THEN dataURLtoFile(outcome.value,
                EditedName(<<"c", "o", "m", "p", "o", "s", "i", "t", "e",
                             "d", "-">>, t))
       ELSE ThrowFile(<<>>)

\* C22: a composite generation that succeeds discards the history that was
\* there and installs the single result as the whole history with the cursor
\* at 0, and empties the working set with the style-source index at 0; one
\* that fails leaves the working set and the style-source index as they were
CompositeCompletion ==
    [][\A i \in 1..Len(tasks), reply \in Replies, t \in Clock :
           handleGenerateCompositeResume(i, reply, t) =>
               IF CompositeResult(i, reply, t).ok
               THEN /\ history' = <<CompositeResult(i, reply, t).file>>
                    /\ historyIndex' = 0
                    /\ compositeFiles' = <<>>
                    /\ styleSourceIndex' = 0
               ELSE /\ compositeFiles' = compositeFiles
                    /\ styleSourceIndex' = styleSourceIndex
                    /\ ~error'.isNull]_vars

\* a composite result is the whole history and the working set is empty
CompositeCompletionWitness ==
    /\ Len(history) = 1
    /\ Len(history[1].name) > 11
    /\ SubSeq(history[1].name, 1, 11) =
           <<"c", "o", "m", "p", "o", "s", "i", "t", "e", "d", "-">>
    /\ historyIndex = 0
    /\ compositeFiles = <<>>
    /\ styleSourceIndex = 0

\* C23: whenever the composite working set is non-empty, the style-source
\* index is a valid position in it
StyleSourceInRange ==
    compositeFiles # <<>> =>
        (0 <= styleSourceIndex /\ styleSourceIndex < Len(compositeFiles))

\* the last file of the working set has been made the style source
StyleSourceInRangeWitness ==
    /\ Len(compositeFiles) > 1
    /\ styleSourceIndex = Len(compositeFiles) - 1

\* C24: undo with the cursor at 0 or below, and redo with the cursor at the
\* last entry or beyond, change nothing (cursor, history, hotspots and
\* selection stay); otherwise undo moves the cursor back by one and redo
\* forward by one, and the history stays as it is
UndoRedoLaw ==
    [][/\ handleUndo =>
              IF historyIndex <= 0
              THEN UNCHANGED <<historyIndex, history, editHotspots,
                               selectedIndices>>
              ELSE historyIndex' = historyIndex - 1 /\ history' = history
        /\ handleRedo =>
              IF historyIndex >= Len(history) - 1
              THEN UNCHANGED <<historyIndex, history, editHotspots,
                               selectedIndices>>
              ELSE historyIndex' = historyIndex + 1 /\ history' = history]_vars

\* undo has moved the cursor off the last of two entries
UndoRedoLawWitness ==
    /\ Len(history) = 2
    /\ historyIndex = 0

\* C30: selecting a non-empty set of batch files discards the history at
\* once (history empty, cursor -1), before any batch run; selecting an empty
\* set only sets an error and leaves the history, the cursor and the batch
\* source list as they were
BatchSelectLaw ==
    [][\A files \in Selections :
           handleBatchFilesSelect(files) =>
               IF Len(files) > 0
               THEN /\ history' = <<>>
                    /\ historyIndex' = -1
                    /\ batchFiles' = files
                    /\ tasks' = tasks
               ELSE /\ ~error'.isNull
                    /\ UNCHANGED <<history, historyIndex, batchFiles>>]_vars

\* batch files are selected, the history is gone and no run has started
BatchSelectLawWitness ==
    /\ batchFiles = Selection(MaxFiles)
    /\ history = <<>>
    /\ historyIndex = -1
    /\ tasks = <<>>
    /\ ~isLoading

\* C26: the pin toggles on exact equality of all three fields: when a style
\* is pinned and its style, top text and bottom text equal the form's, the
\* pin is cleared; otherwise, when the form's style is not blank, the pinned
\* style becomes the form's three fields; when the form's style is blank and
\* nothing matches, nothing changes
PinLaw ==
    [][handlePin =>
           IF /\ ~pinnedFrameStyle.isNull
              /\ <<pinnedFrameStyle.style, pinnedFrameStyle.topText,
                   pinnedFrameStyle.bottomText>> = <<style, topText, bottomText>>
           THEN pinnedFrameStyle' = NoStyle
           ELSE IF Trim(style) # <<>>
           THEN pinnedFrameStyle' =
                    [isNull |-> FALSE, style |-> style, topText |-> topText,
                     bottomText |-> bottomText]
           ELSE UNCHANGED vars]_vars

\* the form, whose style ends in a space, has been pinned as it stands
PinLawWitness ==
    /\ style = <<"g", " ">>
    /\ pinnedFrameStyle =
           [isNull |-> FALSE, style |-> style, topText |-> topText,
            bottomText |-> bottomText]
    /\ topText # bottomText

\* every frame request a batch run has sent carries a style that is not blank
BatchRequestsStyled ==
    \A i \in 1..Len(tasks) :
        tasks[i].op = "batch" =>
            \A k \in 1..Len(tasks[i].sent) :
                /\ tasks[i].sent[k].fn = "generateFramedImage"
                /\ Trim(tasks[i].sent[k].texts[1]) # <<>>

\* C29: the pinned style is always absent or has a style that is not blank
\* once trimmed, so a batch run never sends a frame request with a blank
\* style; a batch run with no pinned style or with an empty source list does
\* nothing: no call, no loading flag, no change of state
BatchNeedsPin ==
    /\ [](pinnedFrameStyle.isNull \/ Trim(pinnedFrameStyle.style) # <<>>)
    /\ []BatchRequestsStyled
    /\ [][(handleApplyFrameToBatch
             /\ (pinnedFrameStyle.isNull \/ Len(batchFiles) = 0))
           => UNCHANGED vars]_vars

\* a batch run is under way with a style pinned from the form, and its
\* second request has been sent
BatchNeedsPinWitness ==
    /\ Len(tasks) > 0
    /\ tasks[1].op = "batch"
    /\ Len(tasks[1].sent) = 2
    /\ tasks[1].pinned.style = <<"g", " ">>
    /\ isLoading

\* C27: in every reachable state every index of the download selection is a
\* valid position of the history, in particular after an append that cuts
\* the redo branch, after a composite or a batch completion replaces the
\* history, and after a batch selection empties it
SelectionInHistory ==
    \A k \in 1..Len(selectedIndices) :
        0 <= selectedIndices[k] /\ selectedIndices[k] < Len(history)

\* C28: when a single-image edit completes successfully, its result is
\* placed right after the snapshot that was sent: the entry before the
\* cursor is the image that was edited and the entry under the cursor is the
\* result, the last of the history, even if a thumbnail click moved the
\* cursor while the call was in flight; the history and the cursor captured
\* when the edit was submitted decide where the history is cut
ResultFollowsSource ==
    [][\A i \in 1..Len(tasks) :
           EditSettles(i, "image") =>
               /\ historyIndex' = tasks[i].historyIndex + 1
               /\ Len(history') = historyIndex' + 1
               /\ At(history', historyIndex' - 1) = tasks[i].image
               /\ Slice(history', 0, historyIndex') =
                      Slice(tasks[i].history, 0, tasks[i].historyIndex + 1)]_vars

\* an edit is in flight and a thumbnail click has moved the cursor off the
\* image that was sent
ResultFollowsSourceWitness ==
    /\ Len(tasks) > 0
    /\ tasks[1].op \in {"edit", "replace", "frame", "filter", "adjust"}
    /\ tasks[1].history = history
    /\ tasks[1].historyIndex # historyIndex
    /\ currentImage # tasks[1].image
    /\ isLoading

\* C25: every operation that raises the loading flag lowers it again when
\* its call settles, on success and on every failure path; when every call
\* settles in the end, the loading flag is false in the end
LoadingEnds ==
    /\ [][Len(tasks') < Len(tasks) => ~isLoading']_vars
    /\ [](isLoading => tasks # <<>>)
    /\ (isLoading ~> ~isLoading)

\* an export has failed and the loading flag is down again
LoadingEndsWitness ==
    /\ ~isLoading
    /\ tasks = <<>>
    /\ ~error.isNull
    /\ error.message = <<"Failed to create zip archive.">>

====
